---------------------------- MODULE Spec2Model ----------------------------
(***************************************************************************)
(* State-machine model of the RedTooth C++ core:                           *)
(*   DeviceScanner  (src/unnamed/part_000, lines 296-513)                  *)
(*   ConnectionPool (src/cpp_core/src/ConnectionPool.cpp)                  *)
(*   Watchdog       (src/cpp_core/src/Watchdog.cpp)                        *)
(*   AudioManager   (src/unnamed/part_000, lines 1-92)                     *)
(*   WASAPIRenderer (src/cpp_core/src/AudioEngine.cpp)                     *)
(*                                                                         *)
(* The components share no state, so each has a specification of its own   *)
(* over the variables it owns; the variables of the other components do    *)
(* not change under it.  DeviceScanner::ScanLoop is looked at from three   *)
(* sides: its back-off arithmetic (SpecBackoff), its merge of the reported *)
(* devices into the cache (SpecCache) and its thread, lock and handle      *)
(* life cycle (SpecScanner).                                               *)
(***************************************************************************)
EXTENDS Integers, Sequences, FiniteSets, TLC

VARIABLES
    \* ---- DeviceScanner::ScanLoop locals (part_000:432-434) and their history
    consecutive_errors,   \* int consecutive_errors
    current_backoff_ms,   \* int current_backoff_ms
    last_cycle,           \* outcome of the last completed cycle: "none" (loop just
                          \* entered), "found", "empty", "error"
    prev_errors,          \* consecutive_errors before the last completed cycle
    prev_backoff,         \* current_backoff_ms before the last completed cycle
    \* ---- DeviceScanner members (part_002:81-85)
    scanning_,            \* bool scanning_
    cached_devices_,      \* std::vector<BluetoothDevice> cached_devices_
    on_device_found_,     \* std::function on_device_found_: TRUE when callable
    \* ---- the scan thread seen per reported device, and the observer's record
    cache_pc,             \* "stopped", "top" (iteration boundary), "devices" (do-while)
    found_calls,          \* address -> times on_device_found_ was invoked for it
    reported,             \* address -> <<>> or <<the last report of the address>>
    resighted,            \* address -> a later sighting changed a mutable field
    unobserved,           \* scanning was ever active with no observer registered
    cycle_seen,           \* the addresses the current (or last) cycle has reported
    stop_seen,            \* <<>> or the observer calls per cached address at the
                          \* last StopScanning, and whether StartScanning followed
    \* ---- DeviceScanner threads, lock and handle
    scan_thread_,         \* HANDLE scan_thread_: 0 (nullptr) or the thread's id
    scan_mutex_,          \* std::mutex mutex_: 0 (free) or the scan thread holding it
    thr,                  \* scan thread id -> where it is in ScanLoop
    handles_closed,       \* thread ids whose HANDLE has been closed
    spawned,              \* number of CreateThread calls that made a thread
    call_pc,              \* caller thread -> where it is in StopScanning
    call_h,               \* caller thread -> the scan_thread_ value it last read
    last_start,           \* <<>> or <<the last StartScanning call's record>>
    last_stop,            \* <<>> or <<what the last StopScanning call returned to>>
    prev_failed,          \* scan thread -> its latest enumeration failed
    \* ---- ConnectionPool (ConnectionPool.h:19) and the radio stack it asks
    active_connections_,  \* std::map<address, HANDLE>: a function on its keys
    os_connected,         \* address -> BLUETOOTH_DEVICE_INFO.fConnected in the OS
    pool_pc,              \* pool caller -> where it is in its call ("off": not used)
    pool_arg,             \* pool caller -> the address of its call
    pool_loc,             \* pool caller -> what its call has seen and done so far
    pool_prev,            \* <<>> or <<summary of the call completed before the last>>
    pool_last,            \* <<>> or <<record of the last completed call>>
    last_profile_op,      \* address -> the last ProfileManager call that succeeded
    pool_mutex_,          \* ConnectionPool::mutex_: "free" or the caller that holds it
    \* ---- Watchdog (part_003:19-21)
    wd_running_,          \* std::atomic<bool> running_
    wd_thread_,           \* thread_: "none" (not joinable) or where Loop is
    wd_pc,                \* watchdog caller -> where it is in Start or Stop
    wd_crashed,           \* "no", or how a misuse of thread_ ended the process:
                          \* "spawn" (assigned while joinable, the new thread
                          \* already made), "join" (joined while not joinable)
    wd_last_cycle,        \* <<>> or <<what the last cycle of Loop saw and did>>
    \* ---- AudioManager (part_002:108-110)
    renderers_,           \* std::map<address, WASAPIRenderer*>: a function on its keys
    last_packet,          \* <<>> or <<the last packet OnAudioCaptured fanned out>>
    last_add,             \* <<>> or <<what the last AddOutputDevice call did>>
    \* ---- AudioManager's threads: the callers and the capture thread
    audio_mutex_,         \* AudioManager::mutex_: "free" or the thread that holds it
    au_pc,                \* audio thread -> where it is in its call
    au_arg,               \* audio thread -> the address of its call
    cap_packet,           \* <<>> or <<the packet OnAudioCaptured is fanning out>>
    renderer_deletes,     \* address -> deletes of the renderer registered for it
    fed_released,         \* FeedData was called on a deleted or unregistered renderer
    last_remove,          \* <<>> or <<what the last RemoveOutputDevice call did>>
    \* ---- WASAPICapturer
    cap_running_,         \* WASAPICapturer::running_
    capture_thread_,      \* WASAPICapturer::capture_thread_: 0 or the joinable thread
    stream,               \* device_, audio_client_, capture_client_: "null" or "live"
    callback_,            \* WASAPICapturer::callback_: "empty" or the callable
    cap_thr,              \* capture thread -> where it is in CaptureLoop
    cap_buf,              \* capture thread -> <<>> or <<the buffer it holds>>
    cap_done,             \* <<>> or <<the last buffer a capture thread gave back>>
    host_pc,              \* host thread -> where it is in Start or Stop
    cap_spawned,          \* capture threads created so far
    cap_alive,            \* FALSE once std::terminate has ended the process
    cap_last_start        \* <<>> or <<what the last finished Start call did>>

backoffVars == <<consecutive_errors, current_backoff_ms, last_cycle,
                 prev_errors, prev_backoff>>

cacheVars == <<cached_devices_, on_device_found_, cache_pc, found_calls,
               reported, resighted, unobserved, cycle_seen, stop_seen>>

lifeVars == <<scan_thread_, scan_mutex_, thr, handles_closed, spawned,
              call_pc, call_h, last_start, last_stop,
             prev_failed>>

poolVars == <<active_connections_, os_connected, pool_pc, pool_arg, pool_loc,
              pool_prev, pool_last, last_profile_op, pool_mutex_>>

wdVars == <<wd_running_, wd_thread_, wd_pc, wd_crashed, wd_last_cycle>>

audioVars == <<renderers_, last_packet, last_add>>

lockVars == <<audio_mutex_, au_pc, au_arg, cap_packet, renderer_deletes,
              fed_released, last_remove>>

capVars == <<cap_running_, capture_thread_, stream, callback_, cap_thr, cap_buf,
             cap_done, host_pc, cap_spawned, cap_alive, cap_last_start>>

vars == <<backoffVars, scanning_, cacheVars, lifeVars, poolVars, wdVars, audioVars,
          lockVars, capVars>>

\* What each component's steps leave alone.
notBackoff  == <<scanning_, cacheVars, lifeVars, poolVars, wdVars, audioVars, lockVars, capVars>>
notCache    == <<lifeVars, poolVars, wdVars, audioVars, lockVars, capVars>>
notScanner  == <<backoffVars, cacheVars, poolVars, wdVars, audioVars, lockVars, capVars>>
notPool     == <<backoffVars, scanning_, cacheVars, lifeVars, wdVars, audioVars, lockVars, capVars>>
notWatchdog == <<backoffVars, scanning_, cacheVars, lifeVars, audioVars, lockVars, capVars>>
notAudio    == <<backoffVars, scanning_, cacheVars, lifeVars, poolVars, wdVars, lockVars, capVars>>
notAudioThreads == <<backoffVars, scanning_, cacheVars, lifeVars, poolVars, wdVars,
                     capVars>>
notCapturer == <<backoffVars, scanning_, cacheVars, lifeVars, poolVars, wdVars,
                 audioVars, lockVars>>

Min(a, b) == IF a < b THEN a ELSE b
Max(a, b) == IF a > b THEN a ELSE b

-----------------------------------------------------------------------------
(***************************************************************************)
(* Back-off state of DeviceScanner::ScanLoop                               *)
(***************************************************************************)

\* const int max_backoff_ms = 10000;
max_backoff_ms == 10000
\* int current_backoff_ms = 1000;  (also the reset value and the floor)
base_backoff_ms == 1000
\* if (consecutive_errors > 2)
error_threshold == 2

\* The model stops counting failures here (the code's int counter has no bound).
MaxErrors == 6
\* rand() % n is drawn from JitterSteps + 1 evenly spread residues of 0 .. n-1,
\* its two extremes 0 and n-1 always among them.
JitterSteps == 2

\* The residues of rand() % n the model draws from.
RandMod(n) == { (i * (n - 1)) \div JitterSteps : i \in 0..JitterSteps }

\* A mutant of BackoffAfterError: the interval is jittered as it stands,
\* neither doubled first nor floored afterwards.
BackoffAfterError_JitterOnly(backoff, r) ==
    LET jitter == r - (backoff \div 10)
    IN  backoff + jitter

\* A mutant of BackoffAfterError: the interval is tripled instead of doubled.
BackoffAfterError_Tripled(backoff, r) ==
    LET doubled == Min(backoff * 3, max_backoff_ms)
        jitter  == r - (doubled \div 10)
    IN  Max(base_backoff_ms, doubled + jitter)

\* current_backoff_ms = min(current_backoff_ms * 2, max_backoff_ms);
\* int jitter = (rand() % (current_backoff_ms / 5)) - (current_backoff_ms / 10);
\* current_backoff_ms = max(1000, current_backoff_ms + jitter);
\* r is the value of rand() % (current_backoff_ms / 5).
BackoffAfterError(backoff, r) ==
    LET doubled == Min(backoff * 2, max_backoff_ms)
        jitter  == r - (doubled \div 10)
    IN  Max(base_backoff_ms, doubled + jitter)

\* The modulus of the jitter draw: the doubled and clamped interval / 5.
JitterModulus(backoff) == Min(backoff * 2, max_backoff_ms) \div 5

\* A mutant of ResetOnFound: the counter is reset, the interval is kept.
ResetOnFound_KeepInterval(errors, backoff) ==
    [errors |-> 0, backoff |-> backoff]

\* if (hFind) { consecutive_errors = 0; current_backoff_ms = 1000; ... }
ResetOnFound(errors, backoff) ==
    [errors |-> 0, backoff |-> base_backoff_ms]

\* ScanLoop is entered: the locals are initialised.
BackoffInit ==
    /\ consecutive_errors = 0
    /\ current_backoff_ms = base_backoff_ms
    /\ last_cycle = "none"
    /\ prev_errors = 0
    /\ prev_backoff = base_backoff_ms

\* A new scan thread enters ScanLoop (StopScanning, then StartScanning).
BackoffLoopEnter ==
    /\ last_cycle # "none"
    /\ consecutive_errors' = 0
    /\ current_backoff_ms' = base_backoff_ms
    /\ last_cycle' = "none"
    /\ prev_errors' = 0
    /\ prev_backoff' = base_backoff_ms
    /\ UNCHANGED notBackoff

\* A cycle whose BluetoothFindFirstDevice returns a handle.
BackoffCycleFound ==
    LET r == ResetOnFound(consecutive_errors, current_backoff_ms) IN
    /\ prev_errors' = consecutive_errors
    /\ prev_backoff' = current_backoff_ms
    /\ consecutive_errors' = r.errors
    /\ current_backoff_ms' = r.backoff
    /\ last_cycle' = "found"
    /\ UNCHANGED notBackoff

\* A mutant of BackoffCycleEmpty: the empty cycle is counted as a failure.
BackoffCycleEmpty_AsError ==
    /\ consecutive_errors < MaxErrors
    /\ prev_errors' = consecutive_errors
    /\ prev_backoff' = current_backoff_ms
    /\ consecutive_errors' = consecutive_errors + 1
    /\ last_cycle' = "empty"
    /\ UNCHANGED current_backoff_ms
    /\ UNCHANGED notBackoff

\* A cycle whose BluetoothFindFirstDevice fails with ERROR_NO_MORE_ITEMS.
BackoffCycleEmpty ==
    /\ prev_errors' = consecutive_errors
    /\ prev_backoff' = current_backoff_ms
    /\ last_cycle' = "empty"
    /\ UNCHANGED <<consecutive_errors, current_backoff_ms>>
    /\ UNCHANGED notBackoff

\* A cycle whose BluetoothFindFirstDevice fails with any other error.
BackoffCycleError ==
    /\ consecutive_errors < MaxErrors
    /\ prev_errors' = consecutive_errors
    /\ prev_backoff' = current_backoff_ms
    /\ consecutive_errors' = consecutive_errors + 1
    /\ last_cycle' = "error"
    /\ IF consecutive_errors + 1 > error_threshold
         THEN \E r \in RandMod(JitterModulus(current_backoff_ms)) :
                current_backoff_ms' = BackoffAfterError(current_backoff_ms, r)
         ELSE UNCHANGED current_backoff_ms
    /\ UNCHANGED notBackoff

BackoffNext ==
    \/ BackoffLoopEnter
    \/ BackoffCycleFound
    \/ BackoffCycleEmpty
    \/ BackoffCycleError

-----------------------------------------------------------------------------
(***************************************************************************)
(* The scan cache: ScanLoop's merge of each reported device                *)
(* (part_000:447-484), one reported device per step: the block at          *)
(* 461-481 runs under mutex_ and is the unit that other threads see.       *)
(* More than one scan thread adds nothing here: their merges interleave as *)
(* the merges of one thread's do-while do.                                 *)
(***************************************************************************)

Addrs == {"A1", "B2"}

\* What BluetoothFindFirstDevice / BluetoothFindNextDevice can report
\* (BLUETOOTH_DEVICE_INFO: Address, szName, fConnected, fAuthenticated,
\* ulClassofDevice).  A1 varies in name, pairing and class, B2 in connection
\* and pairing.
DeviceReports ==
    [address : {"A1"}, name : {"Headset", "Headset Pro"}, connected : {FALSE},
     authenticated : BOOLEAN, cod : {1028, 1032}]
    \cup
    [address : {"B2"}, name : {"Speaker"}, connected : BOOLEAN,
     authenticated : BOOLEAN, cod : {1044}]

\* BluetoothDevice dev built from deviceInfo (part_000:453-459).
DeviceOf(info) ==
    [address |-> info.address, name |-> info.name, connected |-> info.connected,
     authenticated |-> info.authenticated, cod |-> info.cod, rssi |-> 0]

\* The index of the first entry with this address, 0 when there is none.
IndexOf(cache, addr) ==
    IF \E i \in 1..Len(cache) : cache[i].address = addr
      THEN CHOOSE i \in 1..Len(cache) :
             /\ cache[i].address = addr
             /\ \A j \in 1..(i - 1) : cache[j].address # addr
      ELSE 0

\* A mutant of UpdateEntry: the pairing flag is not refreshed.
UpdateEntry_NoAuthenticated(existing, dev) ==
    [existing EXCEPT !.name = dev.name, !.connected = dev.connected]

\* existing.name = dev.name; existing.connected = dev.connected;
\* existing.authenticated = dev.authenticated;   (part_000:466-468)
UpdateEntry(existing, dev) ==
    [existing EXCEPT !.name = dev.name,
                     !.connected = dev.connected,
                     !.authenticated = dev.authenticated]

\* A mutant of MergeDevice: the cache is rebuilt from the current sighting,
\* devices not sighted are dropped.
MergeDevice_Evicting(cache, dev) == <<dev>>

\* The cache after the block at part_000:461-481 for dev.
MergeDevice(cache, dev) ==
    LET i == IndexOf(cache, dev.address) IN
    IF i # 0 THEN [cache EXCEPT ![i] = UpdateEntry(cache[i], dev)]
             ELSE Append(cache, dev)

\* A mutant of NotifyObserver: the observer is told of every sighting.
NotifyObserver_EverySighting(cache, dev, callback) == callback

\* if (!exists) { push_back; if (on_device_found_) on_device_found_(dev); }
\* Whether the observer is invoked for dev.
NotifyObserver(cache, dev, callback) ==
    IndexOf(cache, dev.address) = 0 /\ callback

CacheInit ==
    /\ scanning_ = FALSE
    /\ cached_devices_ = <<>>
    /\ on_device_found_ = FALSE
    /\ cache_pc = "stopped"
    /\ found_calls = [a \in Addrs |-> 0]
    /\ reported = [a \in Addrs |-> <<>>]
    /\ resighted = [a \in Addrs |-> FALSE]
    /\ unobserved = FALSE
    /\ cycle_seen = {}
    /\ stop_seen = <<>>

\* The effect of one reported device: part_000:453-481.
MergeStep(info) ==
    LET dev == DeviceOf(info)
        i   == IndexOf(cached_devices_, dev.address)
    IN
    /\ cached_devices_' = MergeDevice(cached_devices_, dev)
    /\ found_calls' =
         IF NotifyObserver(cached_devices_, dev, on_device_found_)
           THEN [found_calls EXCEPT ![dev.address] = @ + 1]
           ELSE found_calls
    /\ reported' = [reported EXCEPT ![dev.address] = <<info>>]
    /\ resighted' =
         [resighted EXCEPT ![dev.address] =
            @ \/ (i # 0 /\ <<cached_devices_[i].name, cached_devices_[i].connected,
                             cached_devices_[i].authenticated>>
                           # <<dev.name, dev.connected, dev.authenticated>>)]
    /\ UNCHANGED stop_seen

\* DeviceScanner::SetOnDeviceFoundCallback (part_000:381-384).
CacheSetCallback ==
    \E callback \in BOOLEAN :
      /\ on_device_found_' = callback
      /\ unobserved' = (unobserved \/ (~callback /\ cache_pc # "stopped"))
      /\ UNCHANGED <<backoffVars, scanning_, cached_devices_, cache_pc,
                     found_calls, reported, resighted, cycle_seen, stop_seen>>
      /\ UNCHANGED notCache

\* DeviceScanner::StartScanning from Idle with a valid radio (part_000:329-356);
\* the caller's earlier StopScanning has joined the previous scan thread.
CacheStartScanning ==
    /\ ~scanning_
    /\ cache_pc = "stopped"
    /\ scanning_' = TRUE
    /\ cache_pc' = "top"
    /\ unobserved' = (unobserved \/ ~on_device_found_)
    /\ stop_seen' = IF stop_seen = <<>> THEN stop_seen
                    ELSE <<[stop_seen[1] EXCEPT !.restarted = TRUE]>>
    /\ UNCHANGED <<backoffVars, cached_devices_, on_device_found_, found_calls,
                   reported, resighted, cycle_seen>>
    /\ UNCHANGED notCache

\* DeviceScanner::StopScanning clears the flag (part_000:360-364).
CacheStopScanning ==
    /\ scanning_
    /\ scanning_' = FALSE
    /\ stop_seen' =
         <<[calls |-> [a \in { cached_devices_[i].address :
                                 i \in 1..Len(cached_devices_) } |-> found_calls[a]],
            restarted |-> FALSE]>>
    /\ UNCHANGED <<backoffVars, cached_devices_, on_device_found_, cache_pc,
                   found_calls, reported, resighted, unobserved, cycle_seen>>
    /\ UNCHANGED notCache

\* while (true) { if (!scanning_) break; ...   (part_000:436-441)
CacheLoopExit ==
    /\ cache_pc = "top"
    /\ ~scanning_
    /\ cache_pc' = "stopped"
    /\ UNCHANGED <<backoffVars, scanning_, cached_devices_, on_device_found_,
                   found_calls, reported, resighted, unobserved, cycle_seen,
                   stop_seen>>
    /\ UNCHANGED notCache

\* BluetoothFindFirstDevice returns a handle and the first device
\* (part_000:445-481).
CacheFindFirst ==
    /\ cache_pc = "top"
    /\ scanning_
    /\ \E info \in DeviceReports :
         MergeStep(info) /\ cycle_seen' = {info.address}
    /\ consecutive_errors' = ResetOnFound(consecutive_errors, current_backoff_ms).errors
    /\ current_backoff_ms' = ResetOnFound(consecutive_errors, current_backoff_ms).backoff
    /\ cache_pc' = "devices"
    /\ UNCHANGED <<last_cycle, prev_errors, prev_backoff, scanning_,
                   on_device_found_, unobserved>>
    /\ UNCHANGED notCache

\* BluetoothFindNextDevice returns TRUE and the next device (part_000:482).
CacheFindNext ==
    /\ cache_pc = "devices"
    /\ \E info \in DeviceReports :
         MergeStep(info) /\ cycle_seen' = cycle_seen \cup {info.address}
    /\ UNCHANGED <<backoffVars, scanning_, on_device_found_, cache_pc, unobserved>>
    /\ UNCHANGED notCache

\* BluetoothFindNextDevice returns FALSE: the cycle ends, the loop sleeps and
\* comes back to its iteration boundary (part_000:482-510).
CacheFindDone ==
    /\ cache_pc = "devices"
    /\ cache_pc' = "top"
    /\ UNCHANGED <<backoffVars, scanning_, cached_devices_, on_device_found_,
                   found_calls, reported, resighted, unobserved, cycle_seen,
                   stop_seen>>
    /\ UNCHANGED notCache

CacheNext ==
    \/ CacheSetCallback
    \/ CacheStartScanning
    \/ CacheStopScanning
    \/ CacheLoopExit
    \/ CacheFindFirst
    \/ CacheFindNext
    \/ CacheFindDone

\* The reports the whole-cycle steps draw from: paired devices with no link.
CycleReports ==
    {info \in DeviceReports : info.authenticated /\ ~info.connected}

\* A cycle whose BluetoothFindFirstDevice returns a handle, with the merge of
\* a device it reports into the cache (part_000:445-482).
CycleFoundMerge ==
    LET r == ResetOnFound(consecutive_errors, current_backoff_ms) IN
    /\ prev_errors' = consecutive_errors
    /\ prev_backoff' = current_backoff_ms
    /\ consecutive_errors' = r.errors
    /\ current_backoff_ms' = r.backoff
    /\ last_cycle' = "found"
    /\ \E info \in CycleReports :
         MergeStep(info) /\ cycle_seen' = {info.address}
    /\ UNCHANGED <<scanning_, on_device_found_, cache_pc, unobserved>>
    /\ UNCHANGED notCache

\* The cycles of one ScanLoop, each as a whole, with the cache they merge into.
ScanCycleNext ==
    \/ CycleFoundMerge
    \/ BackoffCycleEmpty
    \/ BackoffCycleError
    \/ BackoffLoopEnter

-----------------------------------------------------------------------------
(***************************************************************************)
(* DeviceScanner's threads: StartScanning, StopScanning and the scan       *)
(* thread's walk through ScanLoop, with mutex_ and the thread HANDLE.      *)
(* A block that runs under mutex_ from its lock_guard to the end of its    *)
(* scope without blocking is one step; the sleep slice, which sleeps       *)
(* inside the guard's scope, holds scan_mutex_ across steps.  What the     *)
(* enumeration reports and how long the loop sleeps are left open here:    *)
(* every outcome and every number of slices is allowed.                    *)
(***************************************************************************)

\* The threads of the host that call StartScanning and StopScanning.
Callers == {"c1", "c2"}

\* The model creates at most this many scan threads.
MaxThreads == 2

ThreadIds == 1..MaxThreads

\* The scan threads that exist: created and not yet returned from ScanLoop.
LiveThreads == { t \in ThreadIds : thr[t] \notin {"unborn", "done", "terminated"} }

\* No exception has left ScanLoop: an exception that leaves the thread's start
\* routine (part_000:342-345) is unhandled and ends the process.
ProcessAlive == \A t \in ThreadIds : thr[t] # "terminated"

ScannerInit ==
    /\ scan_thread_ = 0
    /\ scan_mutex_ = 0
    /\ thr = [t \in ThreadIds |-> "unborn"]
    /\ handles_closed = {}
    /\ spawned = 0
    /\ call_pc = [c \in Callers |-> "idle"]
    /\ call_h = [c \in Callers |-> 0]
    /\ last_start = <<>>
    /\ last_stop = <<>>
    /\ prev_failed = [t \in ThreadIds |-> FALSE]

\* A mutant of StartIsNoop: StartScanning never takes the early return.
StartIsNoop_Never(scanning) == FALSE

\* if (scanning_) return true;   (part_000:331)
StartIsNoop(scanning) == scanning

\* What the radio stack can tell IsValidRadio: no radio is found, a radio is
\* found whose info cannot be read, a radio that is not connectable or not
\* discoverable, a radio that is both.
RadioStates == {"none", "no_info", "not_connectable", "ready"}

\* DeviceScanner::IsValidRadio (part_000:386-412): true as soon as the info of
\* a radio was read, in the else branch (402-407) as in the then branch.
IsValidRadio(radio) ==
    IF radio \in {"none", "no_info"} THEN FALSE
    ELSE IF radio = "ready" THEN TRUE
    ELSE TRUE

\* DeviceScanner::StartScanning (part_000:329-356), all of it under mutex_.
\* radio is what IsValidRadio() finds, created whether CreateThread makes a
\* thread.
StartScanning(c) ==
    /\ ProcessAlive
    /\ call_pc[c] = "idle"
    /\ scan_mutex_ = 0
    /\ \E radio \in RadioStates, created \in BOOLEAN :
         IF StartIsNoop(scanning_)
           THEN /\ last_start' = <<[was_scanning |-> TRUE, radio |-> "unchecked",
                                    ret |-> TRUE, made |-> 0]>>
                /\ UNCHANGED <<scanning_, scan_thread_, thr, spawned>>
           ELSE IF ~IsValidRadio(radio)
             THEN /\ last_start' = <<[was_scanning |-> FALSE, radio |-> radio,
                                      ret |-> FALSE, made |-> 0]>>
                  /\ UNCHANGED <<scanning_, scan_thread_, thr, spawned>>
             ELSE IF created
               THEN /\ spawned < MaxThreads
                    /\ scanning_' = TRUE
                    /\ spawned' = spawned + 1
                    /\ scan_thread_' = spawned + 1
                    /\ thr' = [thr EXCEPT ![spawned + 1] = "check"]
                    /\ last_start' = <<[was_scanning |-> FALSE, radio |-> radio,
                                        ret |-> TRUE, made |-> 1]>>
               ELSE /\ scanning_' = FALSE
                    /\ scan_thread_' = 0
                    /\ last_start' = <<[was_scanning |-> FALSE, radio |-> radio,
                                        ret |-> FALSE, made |-> 0]>>
                    /\ UNCHANGED <<thr, spawned>>
    /\ UNCHANGED <<scan_mutex_, handles_closed, call_pc, call_h, last_stop>>
    /\ UNCHANGED prev_failed
    /\ UNCHANGED notScanner

\* What a StopScanning call returns to: the scan threads still running and
\* the thread handles still open at that moment; early when it returned from
\* if (!scanning_) return.
StopReturns(early, closed) ==
    <<[early |-> early, live |-> LiveThreads,
       open |-> (1..spawned) \ closed]>>

\* StopScanning's guarded block (part_000:360-364).
StopBegin(c) ==
    /\ ProcessAlive
    /\ call_pc[c] = "idle"
    /\ scan_mutex_ = 0
    /\ IF ~scanning_
         THEN /\ last_stop' = StopReturns(TRUE, handles_closed)
              /\ UNCHANGED <<scanning_, call_pc>>
         ELSE /\ scanning_' = FALSE
              /\ call_pc' = [call_pc EXCEPT ![c] = "stop_test"]
              /\ UNCHANGED last_stop
    /\ UNCHANGED <<scan_thread_, scan_mutex_, thr, handles_closed, spawned,
                   call_h, last_start>>
    /\ UNCHANGED prev_failed
    /\ UNCHANGED notScanner

\* if (scan_thread_) ...   (part_000:367), read without mutex_.
StopTest(c) ==
    /\ ProcessAlive
    /\ call_pc[c] = "stop_test"
    /\ call_h' = [call_h EXCEPT ![c] = scan_thread_]
    /\ call_pc' = [call_pc EXCEPT ![c] = IF scan_thread_ = 0 THEN "idle" ELSE "stop_wait"]
    /\ last_stop' = IF scan_thread_ = 0 THEN StopReturns(FALSE, handles_closed)
                                        ELSE last_stop
    /\ UNCHANGED <<scanning_, scan_thread_, scan_mutex_, thr, handles_closed,
                   spawned, last_start>>
    /\ UNCHANGED prev_failed
    /\ UNCHANGED notScanner

\* What an unlocked read of scan_thread_ can give a caller that read it
\* before: the value it holds (the compiler may keep it) or the member's
\* value now.  StartScanning writes the member under a lock this reader does
\* not take.
ReadHandle(c) == {call_h[c], scan_thread_}

\* Whether WaitForSingleObject(h, INFINITE) returns: when the thread has
\* ended, and at once (WAIT_FAILED) for a null or closed handle.
WaitReturns(h) ==
    IF h = 0 \/ h \in handles_closed THEN TRUE ELSE thr[h] = "done"

\* WaitForSingleObject(scan_thread_, INFINITE)   (part_000:369)
StopWait(c) ==
    /\ ProcessAlive
    /\ call_pc[c] = "stop_wait"
    /\ \E h \in ReadHandle(c) :
         /\ WaitReturns(h)
         /\ call_h' = [call_h EXCEPT ![c] = h]
    /\ call_pc' = [call_pc EXCEPT ![c] = "stop_close"]
    /\ UNCHANGED <<scanning_, scan_thread_, scan_mutex_, thr, handles_closed,
                   spawned, last_start, last_stop>>
    /\ UNCHANGED prev_failed
    /\ UNCHANGED notScanner

\* CloseHandle(scan_thread_); scan_thread_ = nullptr;   (part_000:370-371)
StopClose(c) ==
    /\ ProcessAlive
    /\ call_pc[c] = "stop_close"
    /\ \E h \in ReadHandle(c) :
         handles_closed' = IF h = 0 THEN handles_closed ELSE handles_closed \cup {h}
    /\ last_stop' = StopReturns(FALSE, handles_closed')
    /\ scan_thread_' = 0
    /\ call_h' = [call_h EXCEPT ![c] = 0]
    /\ call_pc' = [call_pc EXCEPT ![c] = "idle"]
    /\ UNCHANGED <<scanning_, scan_mutex_, thr, spawned, last_start>>
    /\ UNCHANGED prev_failed
    /\ UNCHANGED notScanner

\* ScanLoop's iteration boundary (part_000:436-441).
ScanLoopCheck(t) ==
    /\ ProcessAlive
    /\ thr[t] = "check"
    /\ scan_mutex_ = 0
    /\ thr' = [thr EXCEPT ![t] = IF scanning_ THEN "enum" ELSE "done"]
    /\ UNCHANGED <<scanning_, scan_thread_, scan_mutex_, handles_closed, spawned,
                   call_pc, call_h, last_start, last_stop>>
    /\ UNCHANGED prev_failed
    /\ UNCHANGED notScanner

\* BluetoothFindFirstDevice (part_000:445), outside mutex_: a handle, or a
\* failure (no devices, or an error) that goes to the else branch.
ScanEnumerate(t) ==
    /\ ProcessAlive
    /\ thr[t] = "enum"
    /\ \E found \in BOOLEAN :
         /\ thr' = [thr EXCEPT ![t] = IF found THEN "merge" ELSE "failed"]
         /\ prev_failed' = [prev_failed EXCEPT ![t] = ~found]
    /\ UNCHANGED <<scanning_, scan_thread_, scan_mutex_, handles_closed, spawned,
                   call_pc, call_h, last_start, last_stop>>
    /\ UNCHANGED notScanner

\* A mutant of AfterFailure: a failed enumeration ends ScanLoop.
AfterFailure_Fatal == "done"

\* Where ScanLoop goes on after the else branch (part_000:486-501), which has
\* no break and no return: the sliced sleep.
AfterFailure == "sleep"

\* The else branch of if (hFind) (part_000:486-501): GetLastError, and for an
\* error other than ERROR_NO_MORE_ITEMS the counter and the interval.
ScanFailure(t) ==
    /\ ProcessAlive
    /\ thr[t] = "failed"
    /\ thr' = [thr EXCEPT ![t] = AfterFailure]
    /\ UNCHANGED <<scanning_, scan_thread_, scan_mutex_, handles_closed, spawned,
                   call_pc, call_h, last_start, last_stop>>
    /\ UNCHANGED prev_failed
    /\ UNCHANGED notScanner

\* One device of the do-while merged under mutex_ (part_000:461-481).  When
\* the device is new and an observer is set (notify), on_device_found_(dev)
\* is called inside the guard's scope: the thread enters the observer with
\* mutex_ held.  Otherwise the block ends and BluetoothFindNextDevice gives
\* another device, or the end of the cycle.
ScanMerge(t) ==
    /\ ProcessAlive
    /\ thr[t] = "merge"
    /\ scan_mutex_ = 0
    /\ \E notify \in BOOLEAN, more \in BOOLEAN :
         IF notify
           THEN /\ scan_mutex_' = t
                /\ thr' = [thr EXCEPT ![t] = "callback"]
           ELSE /\ thr' = [thr EXCEPT ![t] = IF more THEN "merge" ELSE "sleep"]
                /\ UNCHANGED scan_mutex_
    /\ UNCHANGED <<scanning_, scan_thread_, handles_closed, spawned,
                   call_pc, call_h, last_start, last_stop>>
    /\ UNCHANGED prev_failed
    /\ UNCHANGED notScanner

\* on_device_found_(dev) returns (part_000:477-481): the guard's scope ends,
\* then BluetoothFindNextDevice (482).
ObserverReturns(t) ==
    /\ ProcessAlive
    /\ thr[t] = "callback"
    /\ scan_mutex_ = t
    /\ scan_mutex_' = 0
    /\ \E more \in BOOLEAN :
         thr' = [thr EXCEPT ![t] = IF more THEN "merge" ELSE "sleep"]
    /\ UNCHANGED <<scanning_, scan_thread_, handles_closed, spawned,
                   call_pc, call_h, last_start, last_stop>>
    /\ UNCHANGED prev_failed
    /\ UNCHANGED notScanner

\* on_device_found_(dev) throws (part_000:477): no handler in ScanLoop
\* (414-513) nor in the thread's start routine (342-345); whether the guard
\* is unwound before the process ends is up to the implementation.
ObserverThrows(t) ==
    /\ ProcessAlive
    /\ thr[t] = "callback"
    /\ scan_mutex_ = t
    /\ thr' = [thr EXCEPT ![t] = "terminated"]
    /\ \E unwound \in BOOLEAN : scan_mutex_' = IF unwound THEN 0 ELSE t
    /\ UNCHANGED <<scanning_, scan_thread_, handles_closed, spawned,
                   call_pc, call_h, last_start, last_stop>>
    /\ UNCHANGED prev_failed
    /\ UNCHANGED notScanner

\* The observer calls StopScanning, GetDiscoveredDevices or
\* SetOnDeviceFoundCallback (part_000:361, 377, 382): a lock_guard on the
\* std::mutex its own thread holds.  Locking a std::mutex one owns is
\* undefined: the thread blocks for ever, or lock() throws std::system_error
\* out of the observer.
ObserverReenters(t) ==
    /\ ProcessAlive
    /\ thr[t] = "callback"
    /\ scan_mutex_ = t
    /\ \E outcome \in {"deadlocked", "terminated"} :
         thr' = [thr EXCEPT ![t] = outcome]
    /\ UNCHANGED <<scanning_, scan_thread_, scan_mutex_, handles_closed, spawned,
                   call_pc, call_h, last_start, last_stop>>
    /\ UNCHANGED prev_failed
    /\ UNCHANGED notScanner

\* A slice of the sleep begins (part_000:505-507): the guard takes mutex_;
\* if (!scanning_) break, else the thread sleeps with the guard in scope.
ScanSleepCheck(t) ==
    /\ ProcessAlive
    /\ thr[t] = "sleep"
    /\ scan_mutex_ = 0
    /\ IF scanning_
         THEN /\ scan_mutex_' = t
              /\ thr' = [thr EXCEPT ![t] = "sleeping"]
         ELSE /\ thr' = [thr EXCEPT ![t] = "check"]
              /\ UNCHANGED scan_mutex_
    /\ UNCHANGED <<scanning_, scan_thread_, handles_closed, spawned,
                   call_pc, call_h, last_start, last_stop>>
    /\ UNCHANGED prev_failed
    /\ UNCHANGED notScanner

\* sleep_for(100 ms) returns and the guard's scope ends (part_000:508-509);
\* i += 100, and the for loop goes on or is over.
ScanSleepSlice(t) ==
    /\ ProcessAlive
    /\ thr[t] = "sleeping"
    /\ scan_mutex_ = t
    /\ scan_mutex_' = 0
    /\ \E more \in BOOLEAN :
         thr' = [thr EXCEPT ![t] = IF more THEN "sleep" ELSE "check"]
    /\ UNCHANGED <<scanning_, scan_thread_, handles_closed, spawned,
                   call_pc, call_h, last_start, last_stop>>
    /\ UNCHANGED prev_failed
    /\ UNCHANGED notScanner

ScannerNext ==
    \/ \E c \in Callers : StartScanning(c)
    \/ \E c \in Callers : StopBegin(c)
    \/ \E c \in Callers : StopTest(c)
    \/ \E c \in Callers : StopWait(c)
    \/ \E c \in Callers : StopClose(c)
    \/ \E t \in ThreadIds : ScanLoopCheck(t)
    \/ \E t \in ThreadIds : ScanEnumerate(t)
    \/ \E t \in ThreadIds : ScanFailure(t)
    \/ \E t \in ThreadIds : ScanMerge(t)
    \/ \E t \in ThreadIds : ObserverReturns(t)
    \/ \E t \in ThreadIds : ObserverThrows(t)
    \/ \E t \in ThreadIds : ObserverReenters(t)
    \/ \E t \in ThreadIds : ScanSleepCheck(t)
    \/ \E t \in ThreadIds : ScanSleepSlice(t)

\* A StopScanning call has been made or is under way.
StopRequested ==
    \/ last_stop # <<>>
    \/ \E c \in Callers : call_pc[c] # "idle"

\* StartScanning in a run in which no stop has been requested so far.
StartUnstopped(c) ==
    /\ ~StopRequested
    /\ StartScanning(c)

\* The scanner up to and including its first stop: starts, the scan thread,
\* and the StopScanning calls that end it.
ScanLiveNext ==
    \/ \E c \in Callers : StartUnstopped(c)
    \/ \E c \in Callers : StopBegin(c)
    \/ \E c \in Callers : StopTest(c)
    \/ \E c \in Callers : StopWait(c)
    \/ \E c \in Callers : StopClose(c)
    \/ \E t \in ThreadIds : ScanLoopCheck(t)
    \/ \E t \in ThreadIds : ScanEnumerate(t)
    \/ \E t \in ThreadIds : ScanFailure(t)
    \/ \E t \in ThreadIds : ScanMerge(t)
    \/ \E t \in ThreadIds : ObserverReturns(t)
    \/ \E t \in ThreadIds : ObserverThrows(t)
    \/ \E t \in ThreadIds : ObserverReenters(t)
    \/ \E t \in ThreadIds : ScanSleepCheck(t)
    \/ \E t \in ThreadIds : ScanSleepSlice(t)

\* A step of scan thread t that is its own to take: the statements of
\* ScanLoop and the return of the observer it called.
ScanThreadStep(t) ==
    \/ ScanLoopCheck(t)
    \/ ScanEnumerate(t)
    \/ ScanFailure(t)
    \/ ScanMerge(t)
    \/ ObserverReturns(t)
    \/ ScanSleepCheck(t)
    \/ ScanSleepSlice(t)

\* Every scan thread is an OS thread that the scheduler keeps running
\* (CreateThread, part_000:342-345): a thread that can take its next step
\* without waiting takes it.
ScannerFairness ==
    \A t \in ThreadIds : WF_vars(ScanThreadStep(t))

\* The last slice of a sleep: for (int i = 0; i < current_backoff_ms; i += 100)
\* (part_000:505) is over after current_backoff_ms / 100 slices.
SleepEnds(t) ==
    /\ ScanSleepSlice(t)
    /\ thr'[t] = "check"

\* The for loop of the sleep is bounded, so a thread that goes on taking
\* slices takes the last one.
SleepFairness ==
    \A t \in ThreadIds : SF_vars(SleepEnds(t))

-----------------------------------------------------------------------------
(***************************************************************************)
(* ConnectionPool (ConnectionPool.cpp:13-51).  Each block under mutex_ is  *)
(* one step; every call to the radio stack (ProfileManager, the            *)
(* BluetoothGetDeviceInfo of IsConnected) is a step of its own, made       *)
(* without the mutex, whose outcome the stack decides.  The connected flag *)
(* of a device changes when the radio stack says so (PoolEnvLink).         *)
(***************************************************************************)

\* The host threads that call the pool.
PoolCallers == {"p1", "p2"}

\* What a call has seen and done before it started: the lookup's answer, the
\* device-info query and its answer, the EnableAudioSink and DisableAudioSink
\* calls made, whether one of them failed, the map at the call's entry.
NoLocals ==
    [had_entry |-> FALSE, queried |-> FALSE, q_ok |-> FALSE, q_flag |-> FALSE,
     enables |-> 0, disables |-> 0, ext_failed |-> FALSE, map_before |-> << >>]

PoolInit ==
    /\ active_connections_ = << >>
    /\ os_connected = [a \in Addrs |-> FALSE]
    /\ pool_pc = [c \in PoolCallers |-> IF c = "p1" THEN "idle" ELSE "off"]
    /\ pool_arg = [c \in PoolCallers |-> "A1"]
    /\ pool_loc = [c \in PoolCallers |-> NoLocals]
    /\ pool_prev = <<>>
    /\ pool_last = <<>>
    /\ last_profile_op = [a \in Addrs |-> "none"]
    /\ pool_mutex_ = "free"

\* active_connections_.find(address.ullLong) != active_connections_.end()
HasEntry(map, a) == a \in DOMAIN map

\* A mutant of IsConnectedVerify: presence in the map is taken for connected.
IsConnectedVerify_LocalOnly(ok, flag) == TRUE

\* if (ret == ERROR_SUCCESS) return deviceInfo.fConnected; return false;
\* (ConnectionPool.cpp:46-50): ok is ret == ERROR_SUCCESS, flag is fConnected.
IsConnectedVerify(ok, flag) == ok /\ flag

\* A mutant of EraseConnection: the entry is kept.
EraseConnection_Keep(map, a) == map

\* A mutant of InsertConnection: the entry is not recorded.
InsertConnection_Skip(map, a) == map

\* active_connections_[address.ullLong] = (HANDLE)1;   (ConnectionPool.cpp:20)
InsertConnection(map, a) ==
    [x \in (DOMAIN map) \cup {a} |-> 1]

\* active_connections_.erase(address.ullLong);   (ConnectionPool.cpp:29)
EraseConnection(map, a) ==
    [x \in (DOMAIN map) \ {a} |-> map[x]]

\* ProfileManager::EnableAudioSink or DisableAudioSink has answered
\* (ProfileManager.cpp:8-37): a call that succeeded is the address's latest.
ProfileOpDone(ops, a, op, success) ==
    IF success THEN [ops EXCEPT ![a] = op] ELSE ops

\* The call of caller c returns ret: it becomes the last completed call.
PoolReturn(c, op, a, ret, loc) ==
    /\ pool_pc' = [pool_pc EXCEPT ![c] = "idle"]
    /\ pool_loc' = [pool_loc EXCEPT ![c] = NoLocals]
    /\ pool_prev' =
         IF pool_last = <<>> THEN <<>>
         ELSE <<[op |-> pool_last[1].op, addr |-> pool_last[1].addr,
                 ret |-> pool_last[1].ret, enables |-> pool_last[1].enables]>>
    /\ pool_last' =
         <<[op |-> op, addr |-> a, ret |-> ret,
            had_entry |-> loc.had_entry, queried |-> loc.queried,
            q_ok |-> loc.q_ok, q_flag |-> loc.q_flag, enables |-> loc.enables,
            disables |-> loc.disables, ext_failed |-> loc.ext_failed,
            map_before |-> loc.map_before]>>

\* The call of caller c goes on at pc with the locals loc.
PoolGoto(c, pc, loc) ==
    /\ pool_pc' = [pool_pc EXCEPT ![c] = pc]
    /\ pool_loc' = [pool_loc EXCEPT ![c] = loc]
    /\ UNCHANGED <<pool_prev, pool_last>>

\* A mutant of ScopeEnd: the guard of the block stays in scope.
ScopeEnd_Kept(c) == c

\* The closing brace of a lock_guard's block (ConnectionPool.cpp:21, 30, 41):
\* the holder of mutex_ afterwards.
ScopeEnd(c) == "free"

\* std::lock_guard<std::mutex> lock(mutex_) of caller c, who goes on at pc
\* (ConnectionPool.cpp:18, 28, 37).
PoolLock(c, pc) ==
    /\ pool_mutex_ = "free"
    /\ pool_mutex_' = c
    /\ pool_pc' = [pool_pc EXCEPT ![c] = pc]

\* ConnectDevice(a) enters IsConnected and takes the guard of its lookup
\* (ConnectionPool.cpp:14, 36-37).
PoolConnectCall(c, a) ==
    /\ pool_pc[c] = "idle"
    /\ PoolLock(c, "conn_find")
    /\ pool_arg' = [pool_arg EXCEPT ![c] = a]
    /\ UNCHANGED <<active_connections_, os_connected, pool_loc, pool_prev,
                   pool_last, last_profile_op>>
    /\ UNCHANGED notPool

\* The lookup of IsConnected inside ConnectDevice and the end of its block
\* (ConnectionPool.cpp:38-41).
PoolConnectBegin(c) ==
    /\ pool_pc[c] = "conn_find"
    /\ pool_mutex_ = c
    /\ pool_mutex_' = ScopeEnd(c)
    /\ LET had == HasEntry(active_connections_, pool_arg[c]) IN
         PoolGoto(c, IF had THEN "conn_query" ELSE "conn_enable",
                  [NoLocals EXCEPT !.had_entry = had,
                                   !.map_before = active_connections_])
    /\ UNCHANGED <<active_connections_, os_connected, pool_arg>>
    /\ UNCHANGED last_profile_op
    /\ UNCHANGED notPool

\* IsConnected inside ConnectDevice asks the OS (ConnectionPool.cpp:44-50);
\* if (IsConnected(address)) return true;
PoolConnectQuery(c) ==
    /\ pool_pc[c] = "conn_query"
    /\ \E ok \in BOOLEAN :
         LET flag == os_connected[pool_arg[c]]
             loc  == [pool_loc[c] EXCEPT !.queried = TRUE, !.q_ok = ok, !.q_flag = flag]
         IN  IF IsConnectedVerify(ok, flag)
               THEN PoolReturn(c, "connect", pool_arg[c], TRUE, loc)
               ELSE PoolGoto(c, "conn_enable", loc)
    /\ UNCHANGED <<active_connections_, os_connected, pool_arg>>
    /\ UNCHANGED last_profile_op
    /\ UNCHANGED pool_mutex_
    /\ UNCHANGED notPool

\* A mutant of PoolConnectEnable: the entry is recorded whatever the answer
\* of EnableAudioSink.
PoolConnectEnable_InsertAlways(c) ==
    /\ pool_pc[c] = "conn_enable"
    /\ \E success \in BOOLEAN :
         /\ PoolGoto(c, "conn_insert",
                     [pool_loc[c] EXCEPT !.enables = @ + 1, !.ext_failed = ~success])
         /\ last_profile_op' = ProfileOpDone(last_profile_op, pool_arg[c], "enable", success)
    /\ UNCHANGED <<active_connections_, os_connected, pool_arg>>
    /\ UNCHANGED pool_mutex_
    /\ UNCHANGED notPool

\* bool success = ProfileManager::EnableAudioSink(address);
\* (ConnectionPool.cpp:16, ProfileManager.cpp:8-26): the stack decides.
PoolConnectEnable(c) ==
    /\ pool_pc[c] = "conn_enable"
    /\ \E success \in BOOLEAN :
         LET loc == [pool_loc[c] EXCEPT !.enables = @ + 1, !.ext_failed = ~success] IN
         /\ IF success THEN PoolGoto(c, "conn_insert", loc)
                       ELSE PoolReturn(c, "connect", pool_arg[c], FALSE, loc)
         /\ last_profile_op' = ProfileOpDone(last_profile_op, pool_arg[c], "enable", success)
    /\ UNCHANGED <<active_connections_, os_connected, pool_arg>>
    /\ UNCHANGED pool_mutex_
    /\ UNCHANGED notPool

\* if (success) { std::lock_guard<std::mutex> lock(mutex_);
\* (ConnectionPool.cpp:17-18)
PoolConnectLock(c) ==
    /\ pool_pc[c] = "conn_insert"
    /\ PoolLock(c, "conn_store")
    /\ UNCHANGED <<active_connections_, os_connected, pool_arg, pool_loc,
                   pool_prev, pool_last, last_profile_op>>
    /\ UNCHANGED notPool

\* active_connections_[...] = (HANDLE)1; } return success;
\* (ConnectionPool.cpp:20-22)
PoolConnectInsert(c) ==
    /\ pool_pc[c] = "conn_store"
    /\ pool_mutex_ = c
    /\ pool_mutex_' = ScopeEnd(c)
    /\ active_connections_' = InsertConnection(active_connections_, pool_arg[c])
    /\ PoolReturn(c, "connect", pool_arg[c], TRUE, pool_loc[c])
    /\ UNCHANGED <<os_connected, pool_arg>>
    /\ UNCHANGED last_profile_op
    /\ UNCHANGED notPool

\* bool success = ProfileManager::DisableAudioSink(address);
\* (ConnectionPool.cpp:26, ProfileManager.cpp:28-37): the stack decides.
PoolDisconnectBegin(c, a) ==
    /\ pool_pc[c] = "idle"
    /\ pool_arg' = [pool_arg EXCEPT ![c] = a]
    /\ \E success \in BOOLEAN :
         LET loc == [NoLocals EXCEPT !.had_entry = HasEntry(active_connections_, a),
                                     !.map_before = active_connections_,
                                     !.disables = 1, !.ext_failed = ~success] IN
         /\ IF success THEN PoolGoto(c, "disc_erase", loc)
                       ELSE PoolReturn(c, "disconnect", a, FALSE, loc)
         /\ last_profile_op' = ProfileOpDone(last_profile_op, a, "disable", success)
    /\ UNCHANGED <<active_connections_, os_connected>>
    /\ UNCHANGED pool_mutex_
    /\ UNCHANGED notPool

\* if (success) { std::lock_guard<std::mutex> lock(mutex_);
\* (ConnectionPool.cpp:27-28)
PoolDisconnectLock(c) ==
    /\ pool_pc[c] = "disc_erase"
    /\ PoolLock(c, "disc_locked")
    /\ UNCHANGED <<active_connections_, os_connected, pool_arg, pool_loc,
                   pool_prev, pool_last, last_profile_op>>
    /\ UNCHANGED notPool

\* active_connections_.erase(...); } return success;  (ConnectionPool.cpp:29-31)
PoolDisconnectErase(c) ==
    /\ pool_pc[c] = "disc_locked"
    /\ pool_mutex_ = c
    /\ pool_mutex_' = ScopeEnd(c)
    /\ active_connections_' = EraseConnection(active_connections_, pool_arg[c])
    /\ PoolReturn(c, "disconnect", pool_arg[c], TRUE, pool_loc[c])
    /\ UNCHANGED <<os_connected, pool_arg>>
    /\ UNCHANGED last_profile_op
    /\ UNCHANGED notPool

\* IsConnected(a) called by the host takes the guard of its lookup
\* (ConnectionPool.cpp:34-37).
PoolIsConnectedCall(c, a) ==
    /\ pool_pc[c] = "idle"
    /\ PoolLock(c, "isc_find")
    /\ pool_arg' = [pool_arg EXCEPT ![c] = a]
    /\ UNCHANGED <<active_connections_, os_connected, pool_loc, pool_prev,
                   pool_last, last_profile_op>>
    /\ UNCHANGED notPool

\* The lookup under mutex_ and the end of its block (ConnectionPool.cpp:38-41);
\* return false when there is no entry.
PoolIsConnectedBegin(c) ==
    /\ pool_pc[c] = "isc_find"
    /\ pool_mutex_ = c
    /\ pool_mutex_' = ScopeEnd(c)
    /\ LET a   == pool_arg[c]
           had == HasEntry(active_connections_, a)
           loc == [NoLocals EXCEPT !.had_entry = had,
                                   !.map_before = active_connections_]
       IN  IF had THEN PoolGoto(c, "isc_query", loc)
                  ELSE PoolReturn(c, "isconnected", a, FALSE, loc)
    /\ UNCHANGED <<active_connections_, os_connected, pool_arg>>
    /\ UNCHANGED last_profile_op
    /\ UNCHANGED notPool

\* IsConnected asks the OS (ConnectionPool.cpp:44-50).
PoolIsConnectedQuery(c) ==
    /\ pool_pc[c] = "isc_query"
    /\ \E ok \in BOOLEAN :
         LET flag == os_connected[pool_arg[c]]
             loc  == [pool_loc[c] EXCEPT !.queried = TRUE, !.q_ok = ok, !.q_flag = flag]
         IN  PoolReturn(c, "isconnected", pool_arg[c], IsConnectedVerify(ok, flag), loc)
    /\ UNCHANGED <<active_connections_, os_connected, pool_arg>>
    /\ UNCHANGED last_profile_op
    /\ UNCHANGED pool_mutex_
    /\ UNCHANGED notPool

\* The radio stack connects or drops the link of a device.
PoolEnvLink(a) ==
    /\ os_connected' = [os_connected EXCEPT ![a] = ~@]
    /\ UNCHANGED <<active_connections_, pool_pc, pool_arg, pool_loc,
                   pool_prev, pool_last>>
    /\ UNCHANGED last_profile_op
    /\ UNCHANGED pool_mutex_
    /\ UNCHANGED notPool

\* A second host thread begins to call the pool through bt_connect_device and its
\* disconnect counterpart (part_001:146-187), which take no lock of their own.
PoolSecondCaller ==
    /\ pool_pc["p2"] = "off"
    /\ pool_pc' = [pool_pc EXCEPT !["p2"] = "idle"]
    /\ UNCHANGED <<active_connections_, os_connected, pool_arg, pool_loc,
                   pool_prev, pool_last, last_profile_op>>
    /\ UNCHANGED pool_mutex_
    /\ UNCHANGED notPool

PoolNext ==
    \/ \E c \in PoolCallers, a \in Addrs : PoolConnectCall(c, a)
    \/ \E c \in PoolCallers : PoolConnectBegin(c)
    \/ \E c \in PoolCallers : PoolConnectQuery(c)
    \/ \E c \in PoolCallers : PoolConnectEnable(c)
    \/ \E c \in PoolCallers : PoolConnectLock(c)
    \/ \E c \in PoolCallers : PoolConnectInsert(c)
    \/ \E c \in PoolCallers, a \in Addrs : PoolDisconnectBegin(c, a)
    \/ \E c \in PoolCallers : PoolDisconnectLock(c)
    \/ \E c \in PoolCallers : PoolDisconnectErase(c)
    \/ \E c \in PoolCallers, a \in Addrs : PoolIsConnectedCall(c, a)
    \/ \E c \in PoolCallers : PoolIsConnectedBegin(c)
    \/ \E c \in PoolCallers : PoolIsConnectedQuery(c)
    \/ \E a \in Addrs : PoolEnvLink(a)

\* The address the two threads call the pool for.
SharedAddrs == {"A1"}

PoolSharedNext ==
    \/ PoolSecondCaller
    \/ \E c \in PoolCallers, a \in SharedAddrs : PoolConnectCall(c, a)
    \/ \E c \in PoolCallers : PoolConnectBegin(c)
    \/ \E c \in PoolCallers : PoolConnectQuery(c)
    \/ \E c \in PoolCallers : PoolConnectEnable(c)
    \/ \E c \in PoolCallers : PoolConnectLock(c)
    \/ \E c \in PoolCallers : PoolConnectInsert(c)
    \/ \E c \in PoolCallers, a \in SharedAddrs : PoolDisconnectBegin(c, a)
    \/ \E c \in PoolCallers : PoolDisconnectLock(c)
    \/ \E c \in PoolCallers : PoolDisconnectErase(c)
    \/ \E c \in PoolCallers, a \in SharedAddrs : PoolIsConnectedCall(c, a)
    \/ \E c \in PoolCallers : PoolIsConnectedBegin(c)
    \/ \E c \in PoolCallers : PoolIsConnectedQuery(c)
    \/ \E a \in SharedAddrs : PoolEnvLink(a)

-----------------------------------------------------------------------------
(***************************************************************************)
(* Watchdog (Watchdog.cpp:5-32).  running_ is atomic, so every read and    *)
(* write of it is a step; thread_ is a std::thread, which terminates the   *)
(* process when it is assigned while joinable and throws when it is joined *)
(* while not joinable.  The watchdog holds a pointer to the pool, whose    *)
(* state the radio stack keeps changing under it (PoolEnvLink).            *)
(***************************************************************************)

\* The host threads that call Start and Stop.
WdCallers == {"w1", "w2"}

\* The set the comment in Loop calls pool_->GetTargetDevices(); the pool has
\* no such member, the watchdog no such field.
DesiredDevices == Addrs

WatchdogInit ==
    /\ wd_running_ = FALSE
    /\ wd_thread_ = "none"
    /\ wd_pc = [c \in WdCallers |-> "idle"]
    /\ wd_crashed = "no"
    /\ wd_last_cycle = <<>>

\* What IsConnected(a) can answer true for: an entry and a connected device.
PoolBelievesConnected(a) ==
    HasEntry(active_connections_, a) /\ os_connected[a]

\* The ConnectDevice calls one pass of the body of Loop makes: the body
\* (Watchdog.cpp:24-27) is comments only, it makes none.
LoopReconnects(unconnected) == {}

\* if (running_) return;   (Watchdog.cpp:12)
WdStartCheck(c) ==
    /\ wd_crashed = "no"
    /\ wd_pc[c] = "idle"
    /\ wd_pc' = [wd_pc EXCEPT ![c] = IF wd_running_ THEN "returned" ELSE "start_set"]
    /\ UNCHANGED <<wd_running_, wd_thread_, wd_crashed, wd_last_cycle, poolVars>>
    /\ UNCHANGED notWatchdog

\* running_ = true;   (Watchdog.cpp:13)
WdStartSet(c) ==
    /\ wd_crashed = "no"
    /\ wd_pc[c] = "start_set"
    /\ wd_running_' = TRUE
    /\ wd_pc' = [wd_pc EXCEPT ![c] = "start_spawn"]
    /\ UNCHANGED <<wd_thread_, wd_crashed, wd_last_cycle, poolVars>>
    /\ UNCHANGED notWatchdog

\* thread_ = std::thread(&Watchdog::Loop, this);   (Watchdog.cpp:14)
\* Move-assigning to a joinable std::thread calls std::terminate.
WdStartSpawn(c) ==
    /\ wd_crashed = "no"
    /\ wd_pc[c] = "start_spawn"
    /\ IF wd_thread_ = "none"
         THEN wd_thread_' = "check" /\ UNCHANGED wd_crashed
         ELSE wd_crashed' = "spawn" /\ UNCHANGED wd_thread_
    /\ wd_pc' = [wd_pc EXCEPT ![c] = "returned"]
    /\ UNCHANGED <<wd_running_, wd_last_cycle, poolVars>>
    /\ UNCHANGED notWatchdog

\* running_ = false; if (thread_.joinable()) ...   (Watchdog.cpp:18-19)
WdStopClear(c) ==
    /\ wd_crashed = "no"
    /\ wd_pc[c] = "idle"
    /\ wd_running_' = FALSE
    /\ wd_pc' = [wd_pc EXCEPT ![c] = IF wd_thread_ = "none" THEN "returned" ELSE "stop_join"]
    /\ UNCHANGED <<wd_thread_, wd_crashed, wd_last_cycle, poolVars>>
    /\ UNCHANGED notWatchdog

\* thread_.join();   (Watchdog.cpp:19): returns when Loop has returned; on a
\* thread another caller has joined meanwhile it throws std::system_error.
WdStopJoin(c) ==
    /\ wd_crashed = "no"
    /\ wd_pc[c] = "stop_join"
    /\ wd_thread_ \in {"none", "done"}
    /\ IF wd_thread_ = "done"
         THEN wd_thread_' = "none" /\ UNCHANGED wd_crashed
         ELSE wd_crashed' = "join" /\ UNCHANGED wd_thread_
    /\ wd_pc' = [wd_pc EXCEPT ![c] = "returned"]
    /\ UNCHANGED <<wd_running_, wd_last_cycle, poolVars>>
    /\ UNCHANGED notWatchdog

\* The caller is back in its own code and may call again.
WdReturn(c) ==
    /\ wd_crashed = "no"
    /\ wd_pc[c] = "returned"
    /\ wd_pc' = [wd_pc EXCEPT ![c] = "idle"]
    /\ UNCHANGED <<wd_running_, wd_thread_, wd_crashed, wd_last_cycle, poolVars>>
    /\ UNCHANGED notWatchdog

\* while (running_) { body }   (Watchdog.cpp:23-28)
WdLoopCheck ==
    /\ wd_crashed = "no"
    /\ wd_thread_ = "check"
    /\ IF wd_running_
         THEN LET unconnected == {a \in DesiredDevices : ~PoolBelievesConnected(a)} IN
              /\ wd_thread_' = "sleep"
              /\ wd_last_cycle' = <<[unconnected |-> unconnected,
                                     reconnects  |-> LoopReconnects(unconnected)]>>
         ELSE /\ wd_thread_' = "done"
              /\ UNCHANGED wd_last_cycle
    /\ UNCHANGED <<wd_running_, wd_pc, wd_crashed, poolVars>>
    /\ UNCHANGED notWatchdog

\* std::this_thread::sleep_for(std::chrono::milliseconds(500));   (Watchdog.cpp:30)
WdLoopSleep ==
    /\ wd_crashed = "no"
    /\ wd_thread_ = "sleep"
    /\ wd_thread_' = "check"
    /\ UNCHANGED <<wd_running_, wd_pc, wd_crashed, wd_last_cycle, poolVars>>
    /\ UNCHANGED notWatchdog

\* The host calls ConnectDevice(a) on the pool the watchdog points to
\* (ConnectionPool.cpp:13-23, the whole call as one step): nothing if
\* IsConnected(a) answers true, else an entry if EnableAudioSink succeeds.
WdHostConnect(a) ==
    /\ wd_crashed = "no"
    /\ \E ok \in BOOLEAN, success \in BOOLEAN :
         IF HasEntry(active_connections_, a) /\ IsConnectedVerify(ok, os_connected[a])
           THEN UNCHANGED <<active_connections_, last_profile_op>>
         ELSE /\ last_profile_op' = ProfileOpDone(last_profile_op, a, "enable", success)
              /\ IF success
                   THEN active_connections_' = InsertConnection(active_connections_, a)
                   ELSE UNCHANGED active_connections_
    /\ UNCHANGED <<os_connected, pool_pc, pool_arg, pool_loc, pool_prev, pool_last,
                   pool_mutex_>>
    /\ UNCHANGED wdVars
    /\ UNCHANGED notWatchdog

\* The radio stack connects or drops the link of a device under the watchdog.
WdEnvLink(a) ==
    /\ wd_crashed = "no"
    /\ PoolEnvLink(a)
    /\ UNCHANGED wdVars

WatchdogNext ==
    \/ \E c \in WdCallers : WdStartCheck(c)
    \/ \E c \in WdCallers : WdStartSet(c)
    \/ \E c \in WdCallers : WdStartSpawn(c)
    \/ \E c \in WdCallers : WdStopClear(c)
    \/ \E c \in WdCallers : WdStopJoin(c)
    \/ \E c \in WdCallers : WdReturn(c)
    \/ WdLoopCheck
    \/ WdLoopSleep
    \/ \E a \in Addrs : WdHostConnect(a)
    \/ \E a \in Addrs : WdEnvLink(a)

-----------------------------------------------------------------------------
(***************************************************************************)
(* AudioManager (part_000:27-67) and WASAPIRenderer (AudioEngine.cpp:      *)
(* 96-143).  AddOutputDevice, RemoveOutputDevice and OnAudioCaptured each  *)
(* work on renderers_ under one lock_guard on mutex_, so each is one step. *)
(***************************************************************************)

\* The addresses the host registers as sinks.
AudioAddrs == {"A1", "B2", "C3"}

\* The addresses that have an audio render endpoint on the machine: what the
\* enumeration FindEndpointId's comment describes (part_000:59-62) would
\* match.  C3 has none.
EndpointAddrs == {"A1", "B2"}

\* The largest packet of the model, in frames.
MaxFrames == 2

AudioInit ==
    /\ renderers_ = << >>
    /\ last_packet = <<>>
    /\ last_add = <<>>

\* return L"{0.0.0.00000000}.{...}";   (part_000:66): the same placeholder id
\* for every address, never the empty string.
FindEndpointId(address) == "{0.0.0.00000000}.{...}"

\* WASAPIRenderer::WASAPIRenderer (AudioEngine.cpp:96-97): render_client_(NULL).
\* Initialize (AudioEngine.cpp:105-129), which sets render_client_, is called
\* nowhere: its one call is commented out (part_000:37-38).
NewRenderer(id) == [device_id |-> id, render_client |-> FALSE]

\* WASAPIRenderer::FeedData (AudioEngine.cpp:131-143): the frames written to
\* the sink; buffer_ok is SUCCEEDED(GetBuffer(frames, &pBuffer)).
FeedData(renderer, frames, buffer_ok) ==
    IF ~renderer.render_client THEN 0
    ELSE IF buffer_ok THEN frames
    ELSE 0

\* AudioManager::AddOutputDevice (part_000:27-41), a void function: the
\* caller is given no result, on the id.empty() path either (29-32).
AddOutputDevice(a) ==
    /\ LET id == FindEndpointId(a) IN
         IF id = "" THEN UNCHANGED renderers_
         ELSE IF a \notin DOMAIN renderers_
           THEN renderers_' = [x \in (DOMAIN renderers_) \cup {a} |->
                                 IF x = a THEN NewRenderer(id) ELSE renderers_[x]]
           ELSE UNCHANGED renderers_
    /\ last_add' = <<[addr |-> a,
                      was_registered |-> a \in DOMAIN renderers_,
                      registered |-> a \in DOMAIN renderers_',
                      ret |-> "void"]>>
    /\ UNCHANGED last_packet
    /\ UNCHANGED notAudio

\* AudioManager::RemoveOutputDevice (part_000:43-49).
RemoveOutputDevice(a) ==
    /\ IF a \in DOMAIN renderers_
         THEN renderers_' = [x \in (DOMAIN renderers_) \ {a} |-> renderers_[x]]
         ELSE UNCHANGED renderers_
    /\ UNCHANGED <<last_packet, last_add>>
    /\ UNCHANGED notAudio

\* AudioManager::OnAudioCaptured (part_000:51-56): FeedData on every renderer.
OnAudioCaptured(frames) ==
    /\ \E buffer_ok \in [DOMAIN renderers_ -> BOOLEAN] :
         last_packet' =
           <<[frames |-> frames,
              sinks |-> DOMAIN renderers_,
              delivered |-> [a \in DOMAIN renderers_ |->
                               FeedData(renderers_[a], frames, buffer_ok[a])]]>>
    /\ UNCHANGED <<renderers_, last_add>>
    /\ UNCHANGED notAudio

AudioNext ==
    \/ \E a \in AudioAddrs : AddOutputDevice(a)
    \/ \E a \in AudioAddrs : RemoveOutputDevice(a)
    \/ \E frames \in 1..MaxFrames : OnAudioCaptured(frames)

-----------------------------------------------------------------------------
(***************************************************************************)
(* AudioManager's threads.  AddOutputDevice and RemoveOutputDevice are     *)
(* called on host threads, OnAudioCaptured on the capture thread           *)
(* (part_000:16-21); each takes std::lock_guard<std::mutex> lock(mutex_)   *)
(* and works on renderers_ statement by statement inside its scope.        *)
(***************************************************************************)

\* The host threads that register and remove sinks.
AudioHosts == {"h1", "h2"}

\* The host threads and the capture thread.
AudioThreads == AudioHosts \cup {"cap"}

\* The address parameter of a thread that is in no call.
NoArg == "none"

AudioThreadsInit ==
    /\ audio_mutex_ = "free"
    /\ au_pc = [t \in AudioThreads |-> "idle"]
    /\ au_arg = [t \in AudioThreads |-> NoArg]
    /\ cap_packet = <<>>
    /\ renderer_deletes = [a \in AudioAddrs |-> 0]
    /\ fed_released = FALSE
    /\ last_remove = <<>>

\* A mutant of CanLock: the lock is taken whoever holds it.
CanLock_Always(mutex) == TRUE

\* std::lock_guard<std::mutex> lock(mutex_) gets the mutex when no thread
\* holds it (part_000:34, 44, 52).
CanLock(mutex) == mutex = "free"

\* A mutant of RestAfterFeed: the fan-out stops at the first sink that took
\* no frames.
RestAfterFeed_StopOnFailure(todo, a, written) ==
    IF written = 0 THEN {} ELSE todo \ {a}

\* for (auto& pair : renderers_) pair.second->FeedData(data, frames);
\* (part_000:53-55): FeedData returns void and the loop has no exit, so the
\* sinks still to feed after a are the others, whatever a took.
RestAfterFeed(todo, a, written) == todo \ {a}

\* AddOutputDevice up to its lock_guard (part_000:28-34): FindEndpointId is
\* called without the lock.
LockedAddResolve(h, a) ==
    /\ au_pc[h] = "idle"
    /\ IF FindEndpointId(a) = ""
         THEN UNCHANGED <<au_pc, au_arg>>
         ELSE /\ au_pc' = [au_pc EXCEPT ![h] = "add_lock"]
              /\ au_arg' = [au_arg EXCEPT ![h] = a]
    /\ UNCHANGED <<renderers_, last_packet, last_add, audio_mutex_, cap_packet,
                   renderer_deletes, fed_released, last_remove>>
    /\ UNCHANGED notAudioThreads

\* std::lock_guard<std::mutex> lock(mutex_);   (part_000:34)
LockedAddLock(h) ==
    /\ au_pc[h] = "add_lock"
    /\ CanLock(audio_mutex_)
    /\ audio_mutex_' = h
    /\ au_pc' = [au_pc EXCEPT ![h] = "add_body"]
    /\ UNCHANGED <<renderers_, last_packet, last_add, au_arg, cap_packet,
                   renderer_deletes, fed_released, last_remove>>
    /\ UNCHANGED notAudioThreads

\* if (find == end) { new WASAPIRenderer(id); renderers_[address] = renderer; }
\* and the end of the guard's scope (part_000:35-41).
LockedAddInsert(h) ==
    /\ au_pc[h] = "add_body"
    /\ LET a == au_arg[h] IN
         /\ IF a \notin DOMAIN renderers_
              THEN /\ renderers_' = [x \in (DOMAIN renderers_) \cup {a} |->
                                       IF x = a THEN NewRenderer(FindEndpointId(a))
                                                ELSE renderers_[x]]
                   /\ renderer_deletes' = [renderer_deletes EXCEPT ![a] = 0]
              ELSE UNCHANGED <<renderers_, renderer_deletes>>
    /\ audio_mutex_' = "free"
    /\ au_pc' = [au_pc EXCEPT ![h] = "idle"]
    /\ au_arg' = [au_arg EXCEPT ![h] = NoArg]
    /\ UNCHANGED <<last_packet, last_add, cap_packet, fed_released, last_remove>>
    /\ UNCHANGED notAudioThreads

\* RemoveOutputDevice: std::lock_guard<std::mutex> lock(mutex_);  (part_000:44)
LockedRemoveLock(h, a) ==
    /\ au_pc[h] = "idle"
    /\ CanLock(audio_mutex_)
    /\ audio_mutex_' = h
    /\ au_arg' = [au_arg EXCEPT ![h] = a]
    /\ au_pc' = [au_pc EXCEPT ![h] = "rm_test"]
    /\ UNCHANGED <<renderers_, last_packet, last_add, cap_packet,
                   renderer_deletes, fed_released, last_remove>>
    /\ UNCHANGED notAudioThreads

\* if (renderers_.count(address)) { delete renderers_[address]; ...
\* (part_000:45-46); with no entry the guard's scope ends and the call returns.
LockedRemoveDelete(h) ==
    /\ au_pc[h] = "rm_test"
    /\ LET a == au_arg[h] IN
         IF a \in DOMAIN renderers_
           THEN /\ renderer_deletes' = [renderer_deletes EXCEPT ![a] = @ + 1]
                /\ au_pc' = [au_pc EXCEPT ![h] = "rm_erase"]
                /\ UNCHANGED <<audio_mutex_, last_remove, au_arg>>
           ELSE /\ audio_mutex_' = "free"
                /\ au_pc' = [au_pc EXCEPT ![h] = "idle"]
                /\ au_arg' = [au_arg EXCEPT ![h] = NoArg]
                /\ last_remove' = <<[addr |-> a, was_registered |-> FALSE,
                                     deletes |-> 0,
                                     registered |-> a \in DOMAIN renderers_]>>
                /\ UNCHANGED renderer_deletes
    /\ UNCHANGED <<renderers_, last_packet, last_add, cap_packet, fed_released>>
    /\ UNCHANGED notAudioThreads

\* renderers_.erase(address); } and the end of the guard's scope
\* (part_000:47-49).
LockedRemoveErase(h) ==
    /\ au_pc[h] = "rm_erase"
    /\ LET a == au_arg[h] IN
         /\ renderers_' = [x \in (DOMAIN renderers_) \ {a} |-> renderers_[x]]
         /\ last_remove' = <<[addr |-> a, was_registered |-> TRUE,
                              deletes |-> renderer_deletes[a],
                              registered |-> FALSE]>>
         /\ renderer_deletes' = [renderer_deletes EXCEPT ![a] = 0]
    /\ audio_mutex_' = "free"
    /\ au_pc' = [au_pc EXCEPT ![h] = "idle"]
    /\ au_arg' = [au_arg EXCEPT ![h] = NoArg]
    /\ UNCHANGED <<last_packet, last_add, cap_packet, fed_released>>
    /\ UNCHANGED notAudioThreads

\* OnAudioCaptured on the capture thread: the lock_guard, and the range-for
\* begins over the registry as it is now (part_000:52-53).
LockedFeedLock(frames) ==
    /\ au_pc["cap"] = "idle"
    /\ CanLock(audio_mutex_)
    /\ audio_mutex_' = "cap"
    /\ cap_packet' = <<[frames |-> frames, sinks |-> DOMAIN renderers_,
                        todo |-> DOMAIN renderers_, delivered |-> << >>]>>
    /\ au_pc' = [au_pc EXCEPT !["cap"] = "feed"]
    /\ UNCHANGED <<renderers_, last_packet, last_add, au_arg,
                   renderer_deletes, fed_released, last_remove>>
    /\ UNCHANGED notAudioThreads

\* pair.second->FeedData(data, frames) for the next sink (part_000:54).
LockedFeedOne ==
    /\ au_pc["cap"] = "feed"
    /\ \E a \in cap_packet[1].todo, buffer_ok \in BOOLEAN :
         LET gone    == a \notin DOMAIN renderers_ \/ renderer_deletes[a] > 0
             written == IF gone THEN 0
                        ELSE FeedData(renderers_[a], cap_packet[1].frames, buffer_ok)
             before  == cap_packet[1].delivered
         IN  /\ cap_packet' =
                  <<[cap_packet[1] EXCEPT
                       !.todo = RestAfterFeed(cap_packet[1].todo, a, written),
                       !.delivered = [x \in (DOMAIN before) \cup {a} |->
                                        IF x = a THEN written ELSE before[x]]]>>
             /\ fed_released' = (fed_released \/ gone)
    /\ UNCHANGED <<renderers_, last_packet, last_add, audio_mutex_, au_pc, au_arg,
                   renderer_deletes, last_remove>>
    /\ UNCHANGED notAudioThreads

\* The range-for is over and the guard's scope ends (part_000:55-56).
LockedFeedUnlock ==
    /\ au_pc["cap"] = "feed"
    /\ cap_packet[1].todo = {}
    /\ last_packet' = <<[frames |-> cap_packet[1].frames,
                         sinks |-> cap_packet[1].sinks,
                         delivered |-> cap_packet[1].delivered]>>
    /\ cap_packet' = <<>>
    /\ audio_mutex_' = "free"
    /\ au_pc' = [au_pc EXCEPT !["cap"] = "idle"]
    /\ UNCHANGED <<renderers_, last_add, au_arg, renderer_deletes, fed_released,
                   last_remove>>
    /\ UNCHANGED notAudioThreads

AudioThreadsNext ==
    \/ \E h \in AudioHosts, a \in AudioAddrs : LockedAddResolve(h, a)
    \/ \E h \in AudioHosts : LockedAddLock(h)
    \/ \E h \in AudioHosts : LockedAddInsert(h)
    \/ \E h \in AudioHosts, a \in AudioAddrs : LockedRemoveLock(h, a)
    \/ \E h \in AudioHosts : LockedRemoveDelete(h)
    \/ \E h \in AudioHosts : LockedRemoveErase(h)
    \/ \E frames \in 1..MaxFrames : LockedFeedLock(frames)
    \/ LockedFeedOne
    \/ LockedFeedUnlock

-----------------------------------------------------------------------------
(***************************************************************************)
(* WASAPICapturer (AudioEngine.cpp:13-92).  Start and Stop are reached     *)
(* from the host's threads through AudioManager::Start and Stop            *)
(* (part_000:16-25, 74-79) with no lock of their own; running_ is the one  *)
(* atomic member, the pointers and capture_thread_ are plain members.      *)
(***************************************************************************)

\* The host threads that call Start and Stop.
CapHosts == {"g1", "g2"}

\* How many capture threads are created in a run.
MaxCaptures == 2

CaptureIds == 1..MaxCaptures

\* The places of CaptureLoop inside while (running_) { ... }.
InLoop == {"size", "get", "call", "in_callback", "release", "sleep"}

\* Where Start can fail after its running_ test (AudioEngine.cpp:27-40).
StartOutcomes == {"endpoint", "activate", "initialize", "service", "ok"}

NoStream == [device |-> "null", audio_client |-> "null", capture_client |-> "null"]

CapturerInit ==
    /\ cap_running_ = FALSE
    /\ capture_thread_ = 0
    /\ stream = NoStream
    /\ callback_ = "empty"
    /\ cap_thr = [t \in CaptureIds |-> "unborn"]
    /\ cap_buf = [t \in CaptureIds |-> <<>>]
    /\ cap_done = <<>>
    /\ host_pc = [h \in CapHosts |-> "idle"]
    /\ cap_spawned = 0
    /\ cap_alive = TRUE
    /\ cap_last_start = <<>>

\* A mutant of StartRefuses: Start goes on whatever the flag says.
StartRefuses_Never(running) == FALSE

\* if (running_) return false;   (AudioEngine.cpp:25)
StartRefuses(running) == running

\* The members after GetDefaultAudioEndpoint, Activate, Initialize and
\* GetService, the first failure of which returns (AudioEngine.cpp:27-40).
AcquireStream(st, outcome) ==
    [device         |-> IF outcome = "endpoint" THEN st.device ELSE "live",
     audio_client   |-> IF outcome \in {"endpoint", "activate"}
                          THEN st.audio_client ELSE "live",
     capture_client |-> IF outcome = "ok" THEN "live" ELSE st.capture_client]

\* Whether the thread capture_thread_ stands for has left CaptureLoop and has
\* not been joined.
LoopHasExited ==
    capture_thread_ # 0 /\ cap_thr[capture_thread_] = "exited"

\* WASAPICapturer::Start up to its test of running_ (AudioEngine.cpp:24-25).
CapStartCheck(h) ==
    /\ cap_alive
    /\ host_pc[h] = "idle"
    /\ IF StartRefuses(cap_running_)
         THEN /\ cap_last_start' = <<[was_running |-> TRUE, ret |-> FALSE,
                                       after_exit |-> LoopHasExited]>>
              /\ UNCHANGED host_pc
         ELSE /\ cap_spawned < MaxCaptures
              /\ host_pc' = [host_pc EXCEPT ![h] = "acquire"]
              /\ UNCHANGED cap_last_start
    /\ UNCHANGED <<cap_running_, capture_thread_, stream, callback_, cap_thr,
                   cap_buf, cap_done, cap_spawned, cap_alive>>
    /\ UNCHANGED notCapturer

\* The endpoint, the audio client, its initialization and the capture
\* service (AudioEngine.cpp:27-40).
CapStartAcquire(h) ==
    /\ cap_alive
    /\ host_pc[h] = "acquire"
    /\ \E outcome \in StartOutcomes :
         /\ stream' = AcquireStream(stream, outcome)
         /\ IF outcome = "ok"
              THEN /\ host_pc' = [host_pc EXCEPT ![h] = "set"]
                   /\ UNCHANGED cap_last_start
              ELSE /\ host_pc' = [host_pc EXCEPT ![h] = "idle"]
                   /\ cap_last_start' = <<[was_running |-> FALSE, ret |-> FALSE,
                                            after_exit |-> FALSE]>>
    /\ UNCHANGED <<cap_running_, capture_thread_, callback_, cap_thr, cap_buf,
                   cap_done, cap_spawned, cap_alive>>
    /\ UNCHANGED notCapturer

\* audio_client_->Start(); callback_ = data_callback; running_ = true;
\* (AudioEngine.cpp:42-45).  The one caller passes the lambda that calls
\* OnAudioCaptured (part_000:17-19).
CapStartSet(h) ==
    /\ cap_alive
    /\ host_pc[h] = "set"
    /\ callback_' = "OnAudioCaptured"
    /\ cap_running_' = TRUE
    /\ host_pc' = [host_pc EXCEPT ![h] = "spawn"]
    /\ UNCHANGED <<capture_thread_, stream, cap_thr, cap_buf, cap_done,
                   cap_spawned, cap_alive, cap_last_start>>
    /\ UNCHANGED notCapturer

\* capture_thread_ = std::thread(&WASAPICapturer::CaptureLoop, this);
\* return true;  (AudioEngine.cpp:46-50).  Move-assigning to a std::thread
\* that is still joinable calls std::terminate.
CapStartSpawn(h) ==
    /\ cap_alive
    /\ host_pc[h] = "spawn"
    /\ IF capture_thread_ # 0
         THEN /\ cap_alive' = FALSE
              /\ UNCHANGED <<capture_thread_, cap_thr, cap_spawned, host_pc,
                             cap_last_start>>
         ELSE /\ cap_spawned < MaxCaptures
              /\ capture_thread_' = cap_spawned + 1
              /\ cap_spawned' = cap_spawned + 1
              /\ cap_thr' = [cap_thr EXCEPT ![cap_spawned + 1] = "top"]
              /\ host_pc' = [host_pc EXCEPT ![h] = "idle"]
              /\ cap_last_start' = <<[was_running |-> FALSE, ret |-> TRUE,
                                       after_exit |-> FALSE]>>
              /\ UNCHANGED cap_alive
    /\ UNCHANGED <<cap_running_, stream, callback_, cap_buf, cap_done>>
    /\ UNCHANGED notCapturer

\* WASAPICapturer::Stop: running_ = false;   (AudioEngine.cpp:54)
CapStopClear(h) ==
    /\ cap_alive
    /\ host_pc[h] = "idle"
    /\ cap_running_' = FALSE
    /\ host_pc' = [host_pc EXCEPT ![h] = "joinable"]
    /\ UNCHANGED <<capture_thread_, stream, callback_, cap_thr, cap_buf, cap_done,
                   cap_spawned, cap_alive, cap_last_start>>
    /\ UNCHANGED notCapturer

\* if (capture_thread_.joinable())   (AudioEngine.cpp:55)
CapStopTest(h) ==
    /\ cap_alive
    /\ host_pc[h] = "joinable"
    /\ host_pc' = [host_pc EXCEPT ![h] =
                     IF capture_thread_ # 0 THEN "join" ELSE "teardown"]
    /\ UNCHANGED <<cap_running_, capture_thread_, stream, callback_, cap_thr,
                   cap_buf, cap_done, cap_spawned, cap_alive, cap_last_start>>
    /\ UNCHANGED notCapturer

\* capture_thread_.join();   (AudioEngine.cpp:55): returns when the thread
\* has left CaptureLoop.  A join of a thread another caller has joined since
\* the test throws std::system_error, which nothing catches.
CapStopJoin(h) ==
    /\ cap_alive
    /\ host_pc[h] = "join"
    /\ IF capture_thread_ = 0
         THEN /\ cap_alive' = FALSE
              /\ UNCHANGED <<capture_thread_, cap_thr, host_pc>>
         ELSE /\ cap_thr[capture_thread_] = "exited"
              /\ cap_thr' = [cap_thr EXCEPT ![capture_thread_] = "joined"]
              /\ capture_thread_' = 0
              /\ host_pc' = [host_pc EXCEPT ![h] = "teardown"]
              /\ UNCHANGED cap_alive
    /\ UNCHANGED <<cap_running_, stream, callback_, cap_buf, cap_done,
                   cap_spawned, cap_last_start>>
    /\ UNCHANGED notCapturer

\* audio_client_->Stop() and the Release of capture_client_, audio_client_
\* and device_, each set to NULL (AudioEngine.cpp:56-59).
CapStopRelease(h) ==
    /\ cap_alive
    /\ host_pc[h] = "teardown"
    /\ stream' = NoStream
    /\ host_pc' = [host_pc EXCEPT ![h] = "idle"]
    /\ UNCHANGED <<cap_running_, capture_thread_, callback_, cap_thr, cap_buf,
                   cap_done, cap_spawned, cap_alive, cap_last_start>>
    /\ UNCHANGED notCapturer

\* The capture thread moves to place pc; nothing else changes.
CapGoto(t, pc) ==
    /\ cap_thr' = [cap_thr EXCEPT ![t] = pc]
    /\ UNCHANGED <<cap_running_, capture_thread_, stream, callback_, cap_buf,
                   cap_done, host_pc, cap_spawned, cap_alive, cap_last_start>>
    /\ UNCHANGED notCapturer

\* while (running_)  and, when it is false, the end of CaptureLoop
\* (AudioEngine.cpp:65, 91).
CapLoopCheck(t) ==
    /\ cap_alive
    /\ cap_thr[t] = "top"
    /\ CapGoto(t, IF cap_running_ THEN "size" ELSE "exited")

\* hr = capture_client_->GetNextPacketSize(&packetLength);
\* if (FAILED(hr)) break;  while (packetLength != 0)   (AudioEngine.cpp:66-69)
CapPacketSize(t) ==
    /\ cap_alive
    /\ cap_thr[t] = "size"
    /\ \E hr \in {"ok", "failed"}, packetLength \in 0..1 :
         CapGoto(t, IF hr = "failed" THEN "exited"
                    ELSE IF packetLength # 0 THEN "get" ELSE "sleep")

\* hr = capture_client_->GetBuffer(&pData, &numFramesAvailable, &flags, ...);
\* if (FAILED(hr)) break;   (AudioEngine.cpp:74-75)
CapGetBuffer(t) ==
    /\ cap_alive
    /\ cap_thr[t] = "get"
    /\ \/ /\ cap_thr' = [cap_thr EXCEPT ![t] = "sleep"]
          /\ UNCHANGED cap_buf
       \/ \E frames \in 1..MaxFrames, silent \in BOOLEAN :
            /\ cap_buf' = [cap_buf EXCEPT ![t] =
                             <<[frames |-> frames, silent |-> silent,
                                held_before |-> cap_buf[t] # <<>>,
                                calls |-> << >>, returned |-> 0]>>]
            /\ cap_thr' = [cap_thr EXCEPT ![t] = "call"]
    /\ UNCHANGED <<cap_running_, capture_thread_, stream, callback_, cap_done,
                   host_pc, cap_spawned, cap_alive, cap_last_start>>
    /\ UNCHANGED notCapturer

\* A mutant of CallbackWanted: silence is passed on like any packet.
CallbackWanted_AlsoSilence(callback, silent) == callback # "empty"

\* if (callback_) { if (flags & AUDCLNT_BUFFERFLAGS_SILENT) { } else ...
\* (AudioEngine.cpp:77-84)
CallbackWanted(callback, silent) == callback # "empty" /\ ~silent

\* callback_(pData, numFramesAvailable);  entered  (AudioEngine.cpp:82), or
\* passed over.
CapCallback(t) ==
    /\ cap_alive
    /\ cap_thr[t] = "call"
    /\ IF CallbackWanted(callback_, cap_buf[t][1].silent)
         THEN /\ cap_buf' = [cap_buf EXCEPT ![t] =
                   <<[cap_buf[t][1] EXCEPT
                        !.calls = Append(@, cap_buf[t][1].frames)]>>]
              /\ cap_thr' = [cap_thr EXCEPT ![t] = "in_callback"]
         ELSE /\ cap_thr' = [cap_thr EXCEPT ![t] = "release"]
              /\ UNCHANGED cap_buf
    /\ UNCHANGED <<cap_running_, capture_thread_, stream, callback_, cap_done,
                   host_pc, cap_spawned, cap_alive, cap_last_start>>
    /\ UNCHANGED notCapturer

\* The callback returns (AudioEngine.cpp:82).
CapCallbackReturn(t) ==
    /\ cap_alive
    /\ cap_thr[t] = "in_callback"
    /\ cap_buf' = [cap_buf EXCEPT ![t] =
                     <<[cap_buf[t][1] EXCEPT !.returned = @ + 1]>>]
    /\ cap_thr' = [cap_thr EXCEPT ![t] = "release"]
    /\ UNCHANGED <<cap_running_, capture_thread_, stream, callback_, cap_done,
                   host_pc, cap_spawned, cap_alive, cap_last_start>>
    /\ UNCHANGED notCapturer

\* capture_client_->ReleaseBuffer(numFramesAvailable);
\* capture_client_->GetNextPacketSize(&packetLength);  whose result is not
\* looked at, and while (packetLength != 0)   (AudioEngine.cpp:86-88).
CapReleaseBuffer(t) ==
    /\ cap_alive
    /\ cap_thr[t] = "release"
    /\ cap_done' = <<cap_buf[t][1]>>
    /\ cap_buf' = [cap_buf EXCEPT ![t] = <<>>]
    /\ \E packetLength \in 0..1 :
         cap_thr' = [cap_thr EXCEPT ![t] =
                       IF packetLength # 0 THEN "get" ELSE "sleep"]
    /\ UNCHANGED <<cap_running_, capture_thread_, stream, callback_, host_pc,
                   cap_spawned, cap_alive, cap_last_start>>
    /\ UNCHANGED notCapturer

\* std::this_thread::sleep_for(std::chrono::milliseconds(5));  (line 89)
CapSleep(t) ==
    /\ cap_alive
    /\ cap_thr[t] = "sleep"
    /\ CapGoto(t, "top")

\* A call through capture_client_ after Stop has released it and set it to
\* NULL (AudioEngine.cpp:66, 74, 86 against 57) is undefined: besides going
\* on as the steps above do, the process can end on the access.
CapUseReleased(t) ==
    /\ cap_alive
    /\ cap_thr[t] \in {"size", "get", "release"}
    /\ stream.capture_client = "null"
    /\ cap_alive' = FALSE
    /\ UNCHANGED <<cap_running_, capture_thread_, stream, callback_, cap_thr,
                   cap_buf, cap_done, host_pc, cap_spawned, cap_last_start>>
    /\ UNCHANGED notCapturer

CapturerNext ==
    \/ \E h \in CapHosts : CapStartCheck(h)
    \/ \E h \in CapHosts : CapStartAcquire(h)
    \/ \E h \in CapHosts : CapStartSet(h)
    \/ \E h \in CapHosts : CapStartSpawn(h)
    \/ \E h \in CapHosts : CapStopClear(h)
    \/ \E h \in CapHosts : CapStopTest(h)
    \/ \E h \in CapHosts : CapStopJoin(h)
    \/ \E h \in CapHosts : CapStopRelease(h)
    \/ \E t \in CaptureIds : CapLoopCheck(t)
    \/ \E t \in CaptureIds : CapPacketSize(t)
    \/ \E t \in CaptureIds : CapGetBuffer(t)
    \/ \E t \in CaptureIds : CapCallback(t)
    \/ \E t \in CaptureIds : CapCallbackReturn(t)
    \/ \E t \in CaptureIds : CapReleaseBuffer(t)
    \/ \E t \in CaptureIds : CapSleep(t)
    \/ \E t \in CaptureIds : CapUseReleased(t)

-----------------------------------------------------------------------------
Init ==
    /\ BackoffInit
    /\ CacheInit
    /\ ScannerInit
    /\ PoolInit
    /\ WatchdogInit
    /\ AudioInit
    /\ AudioThreadsInit
    /\ CapturerInit

SpecBackoff == Init /\ [][BackoffNext]_vars

\* The scan loop cycle by cycle: back-off state and cache together.
SpecScanCycle == Init /\ [][ScanCycleNext]_vars

SpecCache == Init /\ [][CacheNext]_vars

SpecScanner == Init /\ [][ScannerNext]_vars

\* The same, with the scan threads scheduled fairly.
SpecScannerFair == Init /\ [][ScannerNext]_vars /\ ScannerFairness

\* The scanner until its first stop, its thread scheduled fairly and every
\* sleep coming to its end.
SpecScannerLive ==
    Init /\ [][ScanLiveNext]_vars /\ ScannerFairness /\ SleepFairness

\* One host thread calls the pool, one call after the other.
SpecPool == Init /\ [][PoolNext]_vars

\* The pool called from two threads at once.
SpecPoolShared == Init /\ [][PoolSharedNext]_vars

\* Host threads start and stop the watchdog while the pool's devices come and go.
SpecWatchdog == Init /\ [][WatchdogNext]_vars

\* The host registers and removes sinks while the capturer delivers packets.
SpecAudio == Init /\ [][AudioNext]_vars

\* Host threads register and remove sinks while the capture thread fans
\* packets out, every statement under mutex_ a step.
SpecAudioThreads == Init /\ [][AudioThreadsNext]_vars

\* Host threads start and stop the capturer while its capture threads run.
SpecCapturer == Init /\ [][CapturerNext]_vars

-----------------------------------------------------------------------------
\* The addresses that have an entry in the cache.
CacheAddrs == { cached_devices_[i].address : i \in 1..Len(cached_devices_) }

\* C1: the cache holds exactly one entry for every address ever reported, and
\* the entry holds the name, connected and authenticated values of the
\* address's most recent report.
C1_OneEntryLatestValues ==
    \A a \in Addrs :
      LET entries == { i \in 1..Len(cached_devices_) : cached_devices_[i].address = a }
      IN  IF reported[a] = <<>>
            THEN entries = {}
            ELSE /\ Cardinality(entries) = 1
                 /\ \A i \in entries :
                      /\ cached_devices_[i].name = reported[a][1].name
                      /\ cached_devices_[i].connected = reported[a][1].connected
                      /\ cached_devices_[i].authenticated = reported[a][1].authenticated

\* C1 witness: A1 was sighted again with other values (now paired), B2 too, and
\* both have their entry.
C1_Witness ==
    /\ resighted["A1"] /\ resighted["B2"]
    /\ Len(cached_devices_) = 2
    /\ reported["A1"] # <<>> /\ reported["A1"][1].authenticated

\* C2: with an observer registered whenever scanning is active, the observer
\* has been invoked exactly once for every address that has an entry and never
\* for another one; so it is invoked in the step that inserts the entry and in
\* no step that updates it.  Without that premise it is still invoked at most
\* once per address, and only for an address that has an entry.
C2_ObserverOncePerAddress ==
    \A a \in Addrs :
      /\ found_calls[a] <= 1
      /\ found_calls[a] = 1 => a \in CacheAddrs
      /\ ~unobserved => (a \in CacheAddrs => found_calls[a] = 1)

\* C2 witness: the scenario A1, A1 again (changed), B2 with an observer
\* registered throughout: both announced once.
C2_Witness ==
    /\ ~unobserved
    /\ resighted["A1"]
    /\ CacheAddrs = {"A1", "B2"}
    /\ found_calls["A1"] = 1 /\ found_calls["B2"] = 1

\* The cache entry of address a (a has one).
EntryOf(cache, a) == cache[IndexOf(cache, a)]

\* C18: no step removes a cache entry: every address cached before a step is
\* cached after it, and the entry of an address the step does not report is
\* what it was.
C18_CacheNeverShrinks ==
    [][\A a \in Addrs :
         (\E i \in 1..Len(cached_devices_) : cached_devices_[i].address = a) =>
            /\ \E j \in 1..Len(cached_devices_') : cached_devices_'[j].address = a
            /\ reported'[a] = reported[a] =>
                  EntryOf(cached_devices_', a) = EntryOf(cached_devices_, a)]_vars

\* C18 witness: a cycle has ended that did not report A1, which an earlier
\* cycle had cached with a changed name; A1 still has its entry with the
\* values of its last report.
C18_Witness ==
    /\ cache_pc = "top"
    /\ cycle_seen = {"B2"}
    /\ "A1" \in CacheAddrs
    /\ resighted["A1"]
    /\ EntryOf(cached_devices_, "A1").name = reported["A1"][1].name

-----------------------------------------------------------------------------
\* 11^n and 5^n for the jitter factor 11/10 per doubling.
RECURSIVE Pow(_, _)
Pow(b, n) == IF n = 0 THEN 1 ELSE b * Pow(b, n - 1)

\* The largest interval the jitter can leave after the k-th counted failure:
\* 1000 * 2.2^(k-2), and 10999 from the sixth failure on.
JitteredBound(k) ==
    IF k >= 6 THEN max_backoff_ms + max_backoff_ms \div 10 - 1
    ELSE Min(max_backoff_ms + max_backoff_ms \div 10 - 1,
             (base_backoff_ms * Pow(11, k - error_threshold))
                 \div Pow(5, k - error_threshold))

C8_NeverAboveCeiling == current_backoff_ms <= max_backoff_ms

\* C9: a cycle whose enumeration succeeds leaves the failure counter at 0 and
\* the interval at 1000 ms, whatever they were before.
C9_FoundResets ==
    last_cycle = "found" =>
        /\ consecutive_errors = 0
        /\ current_backoff_ms = base_backoff_ms

\* C9 witness: a successful cycle that followed failures and a grown interval.
C9_Witness ==
    /\ last_cycle = "found"
    /\ prev_errors > error_threshold
    /\ prev_backoff > base_backoff_ms

-----------------------------------------------------------------------------
\* C10 as stated: at most one scan thread exists at any time, under any
\* interleaving of StartScanning and StopScanning; a StartScanning that found
\* the scanner scanning returned success and made no thread, and a successful
\* one from Idle made exactly one.
C10_AtMostOneScanThread ==
    /\ Cardinality(LiveThreads) <= 1
    /\ \A i \in 1..Len(last_start) :
         /\ last_start[i].was_scanning => (last_start[i].ret /\ last_start[i].made = 0)
         /\ (~last_start[i].was_scanning /\ last_start[i].ret) => last_start[i].made = 1

\* C11 as stated: whenever a StopScanning call returns, whichever thread made
\* it, no scan thread is running and every thread handle has been closed.
C11_StopReturnsAfterExit ==
    last_stop # <<>> =>
        (last_stop[1].live = {} /\ last_stop[1].open = {})

\* C12 as stated: a StartScanning whose pre-flight check met no radio, or a
\* radio that is not connectable, returns failure and spawns no thread.
C12_PreflightFails ==
    (/\ last_start # <<>>
     /\ ~last_start[1].was_scanning
     /\ last_start[1].radio \in {"none", "not_connectable"}) =>
        (~last_start[1].ret /\ last_start[1].made = 0)

\* C15 as stated: in no reachable state does a scan thread hold the scanner
\* lock while it sleeps between cycles or performs the enumeration call (so
\* GetDiscoveredDevices never has to wait for the scan thread).
C15_NoLockWhileSleeping ==
    \A t \in ThreadIds :
        thr[t] \in {"sleeping", "enum"} => scan_mutex_ # t

\* C16 as stated: the scanner lock is not held while the device-found
\* observer runs, and no call the observer makes on the scanner leaves the
\* scan thread blocked.
C16_ObserverRunsUnlocked ==
    \A t \in ThreadIds :
        /\ thr[t] = "callback" => scan_mutex_ # t
        /\ thr[t] # "deadlocked"

\* C17 as stated: an exception thrown by the device-found observer does not
\* end the scan thread; the loop goes on to its next cycle.
C17_ThrowIsAbsorbed ==
    \A t \in ThreadIds : thr[t] # "terminated"

-----------------------------------------------------------------------------
\* The last two completed pool calls were ConnectDevice(a), ConnectDevice(a):
\* two calls in immediate succession, no DisconnectDevice between them.
ConnectedTwice ==
    /\ pool_prev # <<>> /\ pool_last # <<>>
    /\ pool_prev[1].op = "connect" /\ pool_last[1].op = "connect"
    /\ pool_prev[1].addr = pool_last[1].addr

\* C3 as stated: two ConnectDevice(addr) in immediate succession make exactly
\* one EnableAudioSink call and both return success.
C3_Original ==
    ConnectedTwice =>
        /\ pool_prev[1].enables + pool_last[1].enables = 1
        /\ pool_prev[1].ret /\ pool_last[1].ret

\* C3 amended: when the first of two ConnectDevice(addr) in immediate
\* succession enabled the profile with success, the second finds the entry and
\* asks the radio stack; if the stack reports the device connected, the second
\* makes no EnableAudioSink call (one in all) and both return success.
C3_SecondConnectIsNoop ==
    (ConnectedTwice /\ pool_prev[1].enables = 1 /\ pool_prev[1].ret) =>
        /\ pool_last[1].had_entry /\ pool_last[1].queried
        /\ (pool_last[1].q_ok /\ pool_last[1].q_flag) =>
              (pool_last[1].enables = 0 /\ pool_last[1].ret)

\* C3 witness: the first call enabled the profile, the second returned success
\* on the radio stack's word without enabling again.
C3_Witness ==
    /\ ConnectedTwice
    /\ pool_prev[1].enables = 1 /\ pool_prev[1].ret
    /\ pool_last[1].q_ok /\ pool_last[1].q_flag
    /\ pool_last[1].enables = 0 /\ pool_last[1].ret

\* C4: IsConnected(addr) returns false without asking the radio stack when
\* addr has no entry in the map; when it has one, it asks and returns the
\* connected flag the stack reports (false when the stack reports none because
\* the query failed), so false for a device that was dropped externally.
C4_IsConnectedAuthoritative ==
    (pool_last # <<>> /\ pool_last[1].op = "isconnected") =>
        IF ~pool_last[1].had_entry
          THEN ~pool_last[1].ret /\ ~pool_last[1].queried
          ELSE /\ pool_last[1].queried
               /\ pool_last[1].q_ok => (pool_last[1].ret = pool_last[1].q_flag)
               /\ ~pool_last[1].q_ok => ~pool_last[1].ret

\* C4 witness: IsConnected(addr) answered true, the device was then dropped
\* externally, and the next IsConnected(addr) found the entry and answered false.
C4_Witness ==
    /\ pool_prev # <<>> /\ pool_last # <<>>
    /\ pool_prev[1].op = "isconnected" /\ pool_prev[1].ret
    /\ pool_last[1].op = "isconnected" /\ pool_last[1].addr = pool_prev[1].addr
    /\ pool_last[1].had_entry /\ pool_last[1].q_ok /\ ~pool_last[1].q_flag
    /\ ~pool_last[1].ret

-----------------------------------------------------------------------------
\* C5 as stated: in every cycle of Watchdog::Loop, ConnectDevice is invoked
\* for each desired address for which IsConnected is false.
C5_LoopReconnects ==
    wd_last_cycle # <<>> =>
        wd_last_cycle[1].unconnected \subseteq wd_last_cycle[1].reconnects

\* The watchdog threads that exist: the one thread_ owns while it runs Loop,
\* and the one std::thread's constructor had made when its assignment to a
\* joinable thread_ ended the process.
WdThreadCount ==
    (IF wd_thread_ \in {"check", "sleep"} THEN 1 ELSE 0)
    + (IF wd_crashed = "spawn" THEN 1 ELSE 0)

\* C19 as stated: under any interleaving of Start and Stop from any threads
\* at most one watchdog thread exists, and a Stop joins the thread and
\* returns (its join does not fail).
C19_OneWatchdogThread ==
    /\ WdThreadCount <= 1
    /\ wd_crashed # "join"

\* C6 as stated: every packet of N frames passed to OnAudioCaptured is
\* delivered as exactly N frames to each sink registered at that moment, and
\* to no other.
C6_FanOutDelivers ==
    last_packet # <<>> =>
        /\ DOMAIN last_packet[1].delivered = last_packet[1].sinks
        /\ \A a \in last_packet[1].sinks :
              last_packet[1].delivered[a] = last_packet[1].frames

-----------------------------------------------------------------------------
\* C13: when EnableAudioSink fails, ConnectDevice returns failure and the map
\* is exactly what it was when the call began: no entry for the address was
\* added and no other entry changed.
C13_FailedConnectLeavesMap ==
    (/\ pool_last # <<>>
     /\ pool_last[1].op = "connect"
     /\ pool_last[1].enables >= 1
     /\ pool_last[1].ext_failed) =>
        /\ ~pool_last[1].ret
        /\ active_connections_ = pool_last[1].map_before

\* C13 witness: a ConnectDevice whose enable failed returned while the map
\* held another address's entry and none for its own.
C13_Witness ==
    /\ pool_last # <<>>
    /\ pool_last[1].op = "connect"
    /\ pool_last[1].enables = 1 /\ pool_last[1].ext_failed
    /\ ~pool_last[1].ret
    /\ DOMAIN active_connections_ = Addrs \ {pool_last[1].addr}

\* C14: DisconnectDevice(addr) makes the disable call whether or not addr has
\* an entry; if the call succeeds it returns success and the map is the map
\* of the call's entry without addr, if it fails it returns failure and the
\* map is unchanged.
C14_DisconnectFollowsDisable ==
    (pool_last # <<>> /\ pool_last[1].op = "disconnect") =>
        /\ pool_last[1].disables = 1
        /\ pool_last[1].ret = ~pool_last[1].ext_failed
        /\ IF pool_last[1].ret
             THEN /\ DOMAIN active_connections_ =
                       (DOMAIN pool_last[1].map_before) \ {pool_last[1].addr}
                  /\ \A x \in DOMAIN active_connections_ :
                        active_connections_[x] = pool_last[1].map_before[x]
             ELSE active_connections_ = pool_last[1].map_before

\* C14 witness: a DisconnectDevice of an address that had an entry returned
\* success, the entry is gone and the other address's entry is still there.
C14_Witness ==
    /\ pool_last # <<>>
    /\ pool_last[1].op = "disconnect"
    /\ pool_last[1].had_entry /\ pool_last[1].ret
    /\ DOMAIN pool_last[1].map_before = Addrs
    /\ DOMAIN active_connections_ = Addrs \ {pool_last[1].addr}

-----------------------------------------------------------------------------
\* C20 as stated: an AddOutputDevice for an address that has no audio
\* endpoint adds no entry to the sink registry and is reported to the caller
\* as failed.
C20_UnresolvedAddFails ==
    (last_add # <<>> /\ last_add[1].addr \notin EndpointAddrs) =>
        /\ last_add[1].registered = last_add[1].was_registered
        /\ last_add[1].ret = "failed"

-----------------------------------------------------------------------------
\* C21: RemoveOutputDevice holds the registry lock through its test, delete
\* and erase; a call for an unregistered address leaves the registry as it
\* was and deletes nothing; a call for a registered address deletes that
\* renderer once and leaves the address unregistered.
C21_RemoveUnderLock ==
    /\ [](/\ \A h \in AudioHosts :
               au_pc[h] \in {"rm_test", "rm_erase"} => audio_mutex_ = h
          /\ last_remove # <<>> =>
               /\ ~last_remove[1].registered
               /\ last_remove[1].deletes =
                    (IF last_remove[1].was_registered THEN 1 ELSE 0))
    /\ [][\A h \in AudioHosts :
            /\ au_pc[h] = "rm_test"
            /\ au_pc'[h] = "idle"
            => /\ au_arg[h] \notin DOMAIN renderers_
               /\ renderers_' = renderers_
               /\ renderer_deletes' = renderer_deletes]_vars

\* A registered sink has been removed while another sink stays registered.
C21_Witness ==
    /\ last_remove # <<>>
    /\ last_remove[1].was_registered
    /\ last_remove[1].deletes = 1
    /\ last_remove[1].addr \notin DOMAIN renderers_
    /\ DOMAIN renderers_ # {}


\* C22: a sink whose FeedData took no frames does not end the fan-out:
\* while a packet is fanned out every registered sink is either fed already
\* or still to feed, and when the fan-out is over FeedData has been called
\* with the packet on every sink registered for it.
C22_FailedSinkIsSkippedAlone ==
    /\ cap_packet # <<>> =>
         cap_packet[1].todo \cup DOMAIN cap_packet[1].delivered = cap_packet[1].sinks
    /\ last_packet # <<>> =>
         DOMAIN last_packet[1].delivered = last_packet[1].sinks

\* The fan-out of a packet to two sinks is over and a sink took no frames.
C22_Witness ==
    /\ last_packet # <<>>
    /\ cap_packet = <<>>
    /\ Cardinality(last_packet[1].sinks) >= 2
    /\ \E a \in last_packet[1].sinks : last_packet[1].delivered[a] = 0
    /\ DOMAIN last_packet[1].delivered = last_packet[1].sinks


\* C26: every renderer the capture callback iterates over has been
\* initialized, that is, has its render client.
C26_FedRenderersInitialized ==
    au_pc["cap"] = "feed" =>
        \A a \in cap_packet[1].sinks :
            a \in DOMAIN renderers_ => renderers_[a].render_client

\* C27: FeedData is never called on a renderer that was deleted or erased;
\* while the callback fans a packet out it holds the mutex, and the sinks of
\* the packet are the registry, none of them deleted; a packet whose fan-out
\* is over went to exactly the sinks registered when the lock was taken.
C27_FeedExcludesRelease ==
    /\ ~fed_released
    /\ au_pc["cap"] = "feed" =>
         /\ audio_mutex_ = "cap"
         /\ cap_packet[1].sinks = DOMAIN renderers_
         /\ \A a \in cap_packet[1].sinks : renderer_deletes[a] = 0
         /\ DOMAIN cap_packet[1].delivered \subseteq cap_packet[1].sinks
    /\ \A h \in AudioHosts :
         au_pc[h] \in {"add_body", "rm_test", "rm_erase"} => au_pc["cap"] # "feed"
    /\ (last_packet # <<>> /\ au_pc["cap"] = "idle") =>
         DOMAIN last_packet[1].delivered = last_packet[1].sinks

\* The callback is in the middle of a fan-out to two sinks, one fed, while a
\* host thread waits for the lock to register a sink and another sink has
\* been removed before.
C27_Witness ==
    /\ au_pc["cap"] = "feed"
    /\ Cardinality(cap_packet[1].sinks) = 2
    /\ Cardinality(DOMAIN cap_packet[1].delivered) = 1
    /\ \E h \in AudioHosts : au_pc[h] = "add_lock"
    /\ last_remove # <<>>
    /\ last_remove[1].was_registered


\* C23: no capture thread is inside its loop while the capture client or the
\* audio client is released.
C23_LoopNeverOutlivesStream ==
    \A t \in CaptureIds :
        cap_thr[t] \in InLoop =>
            /\ stream.capture_client = "live"
            /\ stream.audio_client = "live"


\* What the callback has been given for a buffer once it is to be released:
\* nothing for silence, the buffer's frame count once otherwise.
CallsDue(buf) == IF buf.silent THEN << >> ELSE <<buf.frames>>

C25_EntryMeansEnabled ==
    (\A c \in PoolCallers : pool_pc[c] \in {"idle", "off"}) =>
        \A a \in DOMAIN active_connections_ : last_profile_op[a] = "enable"


\* C28: the sleep interval of the scan loop is never below 1000 ms.
C28_IntervalAtLeastFloor ==
    current_backoff_ms >= base_backoff_ms

\* A failing cycle past the threshold whose jitter was negative: the new
\* interval is below the doubled and clamped one.
C28_Witness ==
    /\ last_cycle = "error"
    /\ consecutive_errors > error_threshold
    /\ current_backoff_ms < Min(prev_backoff * 2, max_backoff_ms)
    /\ current_backoff_ms >= base_backoff_ms

\* C29: a cycle whose enumeration reports ERROR_NO_MORE_ITEMS changes neither
\* the consecutive-failure counter nor the sleep interval nor the cache, and
\* calls no observer.
C29_EmptyCycleChangesNothing ==
    /\ [](last_cycle = "empty" =>
            /\ consecutive_errors = prev_errors
            /\ current_backoff_ms = prev_backoff)
    /\ [][(last_cycle' = "empty" /\ <<prev_errors', prev_backoff'>>
                                     = <<consecutive_errors, current_backoff_ms>>) =>
            /\ consecutive_errors' = consecutive_errors
            /\ current_backoff_ms' = current_backoff_ms
            /\ cached_devices_' = cached_devices_
            /\ found_calls' = found_calls]_vars

\* An empty cycle after failures have raised the interval, with devices in
\* the cache from an earlier cycle.
C29_Witness ==
    /\ last_cycle = "empty"
    /\ consecutive_errors > error_threshold
    /\ current_backoff_ms > base_backoff_ms
    /\ current_backoff_ms = prev_backoff
    /\ Len(cached_devices_) = 2


\* C30: whenever a StopScanning call has cleared scanning_ while a scan
\* thread is between two slices of its sleep, that thread eventually returns
\* from ScanLoop (or the process has ended).
C30_StopEndsSleepingThread ==
    \A t \in ThreadIds :
        ((\E c \in Callers : call_pc[c] = "stop_test") /\ ~scanning_ /\ thr[t] = "sleep")
            ~> (thr[t] = "done" \/ ~ProcessAlive)


\* C31: a scan thread whose enumeration has failed starts another
\* enumeration, unless a stop is requested first.
C31_FailureIsRetried ==
    \A t \in ThreadIds :
        (thr[t] = "failed" /\ ~StopRequested) ~> (thr[t] = "enum" \/ StopRequested)

\* A scan thread is about to enumerate again after a failed enumeration and
\* its sleep, with no stop requested.
C31_Witness ==
    /\ ~StopRequested
    /\ scanning_
    /\ \E t \in ThreadIds : thr[t] = "enum" /\ prev_failed[t]


\* C32: a caller of the pool holds mutex_ only between taking a lock_guard and
\* the end of that guard's block, so the caller that is about to make or is
\* making an external call (EnableAudioSink, DisableAudioSink, the query of
\* IsConnected) does not hold it, and active_connections_ changes only in a
\* step of the caller that holds mutex_.
C32_NoExternalCallUnderLock ==
    /\ [](\A c \in PoolCallers :
            pool_mutex_ = c =>
                pool_pc[c] \in {"conn_find", "conn_store", "disc_locked", "isc_find"})
    /\ [][active_connections_' # active_connections_ =>
            \E c \in PoolCallers :
                /\ pool_mutex_ = c
                /\ pool_pc[c] \in {"conn_store", "disc_locked"}
                /\ pool_pc'[c] = "idle"]_vars

\* One caller is at its external call, after the lookup that found no entry,
\* while the other holds mutex_ for its own access to the map.
C32_Witness ==
    \E c, d \in PoolCallers :
        /\ pool_pc[c] \in {"conn_enable", "conn_query", "isc_query"}
        /\ pool_loc[c].map_before = active_connections_
        /\ pool_mutex_ = d
        /\ pool_pc[d] = "conn_store"

\* C33: between enumeration cycles, the cache entry of every address that has
\* been reported holds the device-class code of the address's most recent
\* report.
C33_ClassCodeIsLatest ==
    cache_pc \in {"top", "stopped"} =>
        \A a \in Addrs :
            (reported[a] # <<>> /\ a \in CacheAddrs) =>
                EntryOf(cached_devices_, a).cod = reported[a][1].cod

\* C34: every address that had an entry at the last StopScanning still has
\* one, before and after the StartScanning that follows, and the observer has
\* been invoked for it no more often than it had been at that stop.
C34_CacheSurvivesRestart ==
    stop_seen # <<>> =>
        \A a \in DOMAIN stop_seen[1].calls :
            /\ a \in CacheAddrs
            /\ found_calls[a] = stop_seen[1].calls[a]

\* After a stop and a restart, with an observer registered throughout, the
\* cycle under way has reported both addresses, A1 with changed values; both
\* were cached and announced before the stop.
C34_Witness ==
    /\ stop_seen # <<>>
    /\ stop_seen[1].restarted
    /\ stop_seen[1].calls = [a \in Addrs |-> 1]
    /\ ~unobserved
    /\ scanning_
    /\ cache_pc = "devices"
    /\ cycle_seen = Addrs
    /\ resighted["A1"]
    /\ Len(cached_devices_) = 2

\* C35: a call of Start made while running_ is set does not get past the test
\* of the flag, so it returns false, acquires nothing and creates no thread;
\* and running_ goes from set to clear only in the first statement of Stop.
\* Hence, once the capture loop has left on a failed packet-size query with
\* the flag still set, every Start is refused until a Stop has begun.
C35_StartRefusedWhileRunning ==
    /\ [][cap_running_ =>
            /\ \A h \in CapHosts : host_pc[h] = "idle" => host_pc'[h] # "acquire"
            /\ (cap_last_start' # cap_last_start /\ host_pc' = host_pc) =>
                   /\ ~cap_last_start'[1].ret
                   /\ cap_spawned' = cap_spawned
                   /\ capture_thread_' = capture_thread_
                   /\ stream' = stream]_vars
    /\ [][(cap_running_ /\ ~cap_running_') =>
            \E h \in CapHosts : host_pc[h] = "idle" /\ host_pc'[h] = "joinable"]_vars

\* The capture loop has left by itself, nobody has called Stop since, the flag
\* is still set, and the Start call made after the loop had left was refused.
C35_Witness ==
    /\ cap_alive
    /\ cap_running_
    /\ LoopHasExited
    /\ \A h \in CapHosts : host_pc[h] = "idle"
    /\ cap_last_start = <<[was_running |-> TRUE, ret |-> FALSE, after_exit |-> TRUE]>>

=============================================================================
